---- MODULE Spec2Model ----
(***************************************************************************)
(* The path-addressed outline store of src/outline-tools.ts                *)
(* (class OutlineManager): four path-keyed dictionaries, node CRUD with    *)
(* cascading delete, sibling id allocation and the nested-document         *)
(* migration.                                                              *)
(*                                                                         *)
(* A path is modelled as the JavaScript string it is: a sequence of        *)
(* one-character strings, so that split, startsWith, template-string       *)
(* formatting of numbers and parseInt are computed character by character. *)
(***************************************************************************)
EXTENDS Integers, Sequences, FiniteSets, TLC

VARIABLES
    data,        \* OutlineManager.data: the four dictionaries (in memory)
    dataLoaded,  \* OutlineManager.dataLoaded
    file,        \* the backing JSON file: [state, doc]
    pre,         \* history: the document the last operation started on
                 \*   (after its loadData) and the file when it was called
    last,        \* history: the last operation, its arguments and result
    tasks,       \* the calls of concurrent callers: where each one stands
                 \*   between two awaits, and its local variables
    lastWriter,  \* history: the caller whose writeFile completed last
    removed,     \* history: the paths that deleteNode has removed (kept
                 \*   by SpecReuse)
    graph        \* the knowledge graph file of KnowledgeGraphManager:
                 \*   [state, lines]

vars == <<data, dataLoaded, file, pre, last, tasks, lastWriter, removed,
          graph>>

\* the state of the concurrent callers
conc == <<tasks, lastWriter>>

\* the history of the sequential caller, and the knowledge graph
seq == <<pre, last, removed, graph>>

(***************************************************************************)
(* Bounds of the model.                                                    *)
(***************************************************************************)
MaxInner == 3      \* addNode adds a volume, act or plot point up to this many
MaxChapters == 2   \* addNode adds a chapter up to this many
MaxOrd == 3        \* no sibling ordinal above this one is generated
AttrMaxNodes == 4  \* nodes the store holds at most, with varied attributes
AttrMaxOrd == 1    \* the bound on sibling ordinals, with varied attributes
MaxList == 4       \* the longest list of a nested source

(***************************************************************************)
(* Strings.                                                                *)
(***************************************************************************)
Digits == <<"0", "1", "2", "3", "4", "5", "6", "7", "8", "9">>

IsDigit(c) == \E i \in 1..10 : Digits[i] = c

DigitVal(c) == (CHOOSE i \in 1..10 : Digits[i] = c) - 1

\* `${n}` for a non-negative integer n
RECURSIVE NumToStr(_)
NumToStr(n) ==
    IF n < 10 THEN <<Digits[n + 1]>>
    ELSE NumToStr(n \div 10) \o <<Digits[(n % 10) + 1]>>

\* String.prototype.startsWith
startsWith(s, prefix) ==
    /\ Len(prefix) <= Len(s)
    /\ SubSeq(s, 1, Len(prefix)) = prefix

\* String.prototype.substring(1)
substring1(s) == SubSeq(s, 2, Len(s))

\* The longest prefix of s made of decimal digits.
RECURSIVE DigitPrefix(_)
DigitPrefix(s) ==
    IF s = <<>> \/ ~IsDigit(Head(s)) THEN <<>>
    ELSE <<Head(s)>> \o DigitPrefix(Tail(s))

RECURSIVE DigitsVal(_, _)
DigitsVal(s, acc) ==
    IF s = <<>> THEN acc
    ELSE DigitsVal(Tail(s), 10 * acc + DigitVal(Head(s)))

\* parseInt(s, 10): NaN is modelled by isNaN = TRUE
parseInt(s) ==
    LET d == DigitPrefix(s)
    IN  [isNaN |-> d = <<>>, num |-> DigitsVal(d, 0)]

\* s.split('/'): the segments between slashes, empty ones included
RECURSIVE SplitFrom(_, _)
SplitFrom(s, cur) ==
    IF s = <<>> THEN <<cur>>
    ELSE IF Head(s) = "/" THEN <<cur>> \o SplitFrom(Tail(s), <<>>)
    ELSE SplitFrom(Tail(s), Append(cur, Head(s)))

split(s) == SplitFrom(s, <<>>)

\* parts.join('/')
RECURSIVE join(_)
join(parts) ==
    IF parts = <<>> THEN <<>>
    ELSE IF Len(parts) = 1 THEN parts[1]
    ELSE parts[1] \o <<"/">> \o join(Tail(parts))

\* nodePath.split('/').filter(p => p)
pathParts(nodePath) == SelectSeq(split(nodePath), LAMBDA p : p # <<>>)

(***************************************************************************)
(* The document.                                                           *)
(***************************************************************************)
NoEntries == <<>>    \* {} : a dictionary without keys

EmptyData ==
    [volumes |-> NoEntries, acts |-> NoEntries,
     plotPoints |-> NoEntries, chapters |-> NoEntries]

NodeTypes == {"volume", "act", "plot_point", "chapter"}

Root == <<"/">>

Null == <<>>         \* null as a returned path, or a node that is not there

\* a classification that also looks at the prefixes of the segments above
getNodeTypeFromPathStrict(nodePath) ==
    LET parts == pathParts(nodePath)
        prefixes == <<"v", "a", "p", "c">>
        types == <<"volume", "act", "plot_point", "chapter">>
    IN  IF /\ Len(parts) \in 1..4
           /\ \A i \in 1..Len(parts) : startsWith(parts[i], <<prefixes[i]>>)
        THEN types[Len(parts)]
        ELSE "null"

\* getNodeTypeFromPath: null is modelled by "null"
getNodeTypeFromPath(nodePath) ==
    LET parts == pathParts(nodePath)
    IN  IF Len(parts) = 1 /\ startsWith(parts[1], <<"v">>) THEN "volume"
        ELSE IF Len(parts) = 2 /\ startsWith(parts[2], <<"a">>) THEN "act"
        ELSE IF Len(parts) = 3 /\ startsWith(parts[3], <<"p">>) THEN "plot_point"
        ELSE IF Len(parts) = 4 /\ startsWith(parts[4], <<"c">>) THEN "chapter"
        ELSE "null"

DictName(type) ==
    CASE type = "volume" -> "volumes"
      [] type = "act" -> "acts"
      [] type = "plot_point" -> "plotPoints"
      [] type = "chapter" -> "chapters"

\* getDictionaryByType
getDictionaryByType(d, type) == d[DictName(type)]

\* getParentPath
getParentPath(nodePath) ==
    LET parts == split(nodePath)
    IN  IF Len(parts) <= 2 THEN Root
        ELSE join(SubSeq(parts, 1, Len(parts) - 1))

AllPaths(d) ==
    DOMAIN d.volumes \cup DOMAIN d.acts \cup DOMAIN d.plotPoints
        \cup DOMAIN d.chapters

InnerCount(d) ==
    Cardinality(DOMAIN d.volumes) + Cardinality(DOMAIN d.acts)
        + Cardinality(DOMAIN d.plotPoints)

ChapterCount(d) == Cardinality(DOMAIN d.chapters)

NodeCount(d) == InnerCount(d) + ChapterCount(d)

(***************************************************************************)
(* Persistence: loadData and saveData.                                     *)
(* file.state is "missing" (ENOENT), "corrupt" (unreadable or not JSON)    *)
(* or "ok"; file.doc is the document the file holds when it is "ok".       *)
(***************************************************************************)
FileOf(d) == [state |-> "ok", doc |-> d]

\* variant: the write leaves the file empty of nodes
saveDataEmpty(d) == FileOf(EmptyData)

\* saveData: the whole document is written
saveData(d) == FileOf(d)

\* variant: a missing file is not created
loadDataNoCreate ==
    IF dataLoaded THEN [data |-> data, file |-> file, saved |-> FALSE]
    ELSE IF file.state = "ok"
        THEN [data |-> file.doc, file |-> file, saved |-> FALSE]
    ELSE [data |-> EmptyData, file |-> file, saved |-> FALSE]

\* loadData, called with the current state: the document in memory after
\* it, the file after it, and whether it wrote the file
loadData ==
    IF dataLoaded THEN [data |-> data, file |-> file, saved |-> FALSE]
    ELSE IF file.state = "ok"
        THEN [data |-> file.doc, file |-> file, saved |-> FALSE]
    ELSE IF file.state = "missing"
        THEN [data |-> EmptyData, file |-> saveData(EmptyData), saved |-> TRUE]
    ELSE [data |-> EmptyData, file |-> file, saved |-> FALSE]

(***************************************************************************)
(* Reads.                                                                  *)
(***************************************************************************)
WithPath(node, nodePath) == [path |-> nodePath] @@ node

\* getNode on document d
getNode(d, nodePath) ==
    LET type == getNodeTypeFromPath(nodePath)
    IN  IF type = "null" THEN Null
        ELSE LET dictionary == getDictionaryByType(d, type)
             IN  IF nodePath \notin DOMAIN dictionary THEN Null
                 ELSE WithPath(dictionary[nodePath], nodePath)

\* variant: the children array holds the whole subtree of the parent
ChildrenInSubtree(dict, parentPath) ==
    LET prefix == IF parentPath = Root THEN Root ELSE parentPath \o <<"/">>
    IN  { WithPath(dict[nodePath], nodePath) :
            nodePath \in { q \in DOMAIN dict :
                startsWith(q, prefix) /\ q # parentPath } }

ChildrenIn(dict, parentPath) ==
    LET parentDepth ==
            IF parentPath = Root THEN 0 ELSE Len(pathParts(parentPath))
        prefix == IF parentPath = Root THEN Root ELSE parentPath \o <<"/">>
    IN  { WithPath(dict[nodePath], nodePath) :
            nodePath \in { q \in DOMAIN dict :
                /\ startsWith(q, prefix)
                /\ q # parentPath
                /\ Len(pathParts(q)) = parentDepth + 1 } }

\* getChildren on document d (the order of the array is not modelled)
getChildren(d, parentPath) ==
    ChildrenIn(d.volumes, parentPath) \cup ChildrenIn(d.acts, parentPath)
        \cup ChildrenIn(d.plotPoints, parentPath)
        \cup ChildrenIn(d.chapters, parentPath)

\* the children array as the number of times each entry was pushed: once
\* for every dictionary whose scan produced it
getChildrenArray(d, parentPath) ==
    LET scans == << ChildrenIn(d.volumes, parentPath),
                    ChildrenIn(d.acts, parentPath),
                    ChildrenIn(d.plotPoints, parentPath),
                    ChildrenIn(d.chapters, parentPath) >>
    IN  [ child \in getChildren(d, parentPath) |->
            Cardinality({ i \in 1..4 : child \in scans[i] }) ]

\* childPath.split('/').pop()
LastSegment(childPath) == LET parts == split(childPath) IN parts[Len(parts)]

\* variant: the least of the ids is taken for the greatest
SetMin(S) == IF S = {} THEN 0 ELSE CHOOSE m \in S : \A x \in S : m <= x

SetMax(S) == IF S = {} THEN 0 ELSE CHOOSE m \in S : \A x \in S : x <= m

\* variant: the next id is the number of children plus one
generateNextChildIdCount(d, parentPath, childPrefix) ==
    Cardinality({ c \in getChildren(d, parentPath) :
                    startsWith(LastSegment(c.path), <<childPrefix>>) }) + 1

\* variant: the next id is the smallest one no child of the prefix has
generateNextChildIdGap(d, parentPath, childPrefix) ==
    LET used == { parseInt(substring1(LastSegment(c.path))).num :
                    c \in { x \in getChildren(d, parentPath) :
                        startsWith(LastSegment(x.path), <<childPrefix>>) } }
    IN  CHOOSE n \in 1..(Cardinality(used) + 1) :
            n \notin used /\ \A m \in 1..(n - 1) : m \in used

\* variant: every child gets the id 1
generateNextChildIdFirst(d, parentPath, childPrefix) == 1

\* generateNextChildId on document d
generateNextChildId(d, parentPath, childPrefix) ==
    LET ids == { parseInt(substring1(LastSegment(child.path))).num :
                   child \in { c \in getChildren(d, parentPath) :
                       /\ startsWith(LastSegment(c.path), <<childPrefix>>)
                       /\ ~parseInt(substring1(LastSegment(c.path))).isNaN } }
        maxId == SetMax(ids \cup {0})
    IN  maxId + 1

(***************************************************************************)
(* Inputs.  A nodeData / newData object is the record                      *)
(*   [type, hasTitle, title, hasIndex, index, hasMetadata, metadata, rest] *)
(* where rest holds the fields the destructuring does not name.  A         *)
(* metadata bag is a function from keys to values.                         *)
(***************************************************************************)
NoMeta == <<>>       \* {} : a metadata object without keys

NoData ==
    [type |-> "none", hasTitle |-> FALSE, title |-> "", hasIndex |-> FALSE,
     index |-> 0, hasMetadata |-> FALSE, metadata |-> NoMeta, rest |-> NoMeta]

\* a JavaScript number: an integer, or NaN
Num(n) == [isNaN |-> FALSE, num |-> n]

NaN == [isNaN |-> TRUE, num |-> 0]

\* an optional windowSize argument
NoWindowSize == [given |-> FALSE, value |-> Num(0)]

WindowSize(n) == [given |-> TRUE, value |-> Num(n)]

\* the knowledge graph file before it is written
NoGraphFile == [state |-> "missing", lines |-> <<>>]

NoCall ==
    [op |-> "none", path |-> Null, nd |-> NoData, src |-> "none",
     result |-> FALSE, saved |-> FALSE, windowSize |-> NoWindowSize,
     thrown |-> FALSE, io |-> "ok", outline |-> <<>>, input |-> <<>>]

\* pre while a call is in progress or has returned, and between calls
CallState(d) ==
    [data |-> d, file |-> file, dataLoaded |-> dataLoaded, graph |-> graph]

NoCallState ==
    [data |-> EmptyData, file |-> FileOf(EmptyData), dataLoaded |-> FALSE,
     graph |-> NoGraphFile]

Call(op, path_, nd, src, result, saved) ==
    [op |-> op, path |-> path_, nd |-> nd, src |-> src,
     result |-> result, saved |-> saved, windowSize |-> NoWindowSize,
     thrown |-> FALSE, io |-> "ok", outline |-> <<>>, input |-> <<>>]

\* a call that ended with the exception of a failed write; noResult is
\* what stands for the result that was not returned
Thrown(op, path_, nd, noResult) ==
    [Call(op, path_, nd, "none", noResult, FALSE)
        EXCEPT !.thrown = TRUE, !.io = "writeFailed"]

PrefixOfType(type) ==
    CASE type = "volume" -> "v"
      [] type = "act" -> "a"
      [] type = "plot_point" -> "p"
      [] type = "chapter" -> "c"

\* variant: an act is expected under the root
ExpectedParentTypeFlat(type) ==
    CASE type = "volume" -> "root"
      [] type = "act" -> "root"
      [] type = "plot_point" -> "act"
      [] type = "chapter" -> "plot_point"

ExpectedParentType(type) ==
    CASE type = "volume" -> "root"
      [] type = "act" -> "volume"
      [] type = "plot_point" -> "act"
      [] type = "chapter" -> "plot_point"

\* d with dictionary[nodePath] = node
PutNode(d, type, nodePath, node) ==
    [d EXCEPT ![DictName(type)] = (nodePath :> node) @@ @]

(***************************************************************************)
(* addNode, computed on the loaded document d: the returned path (Null     *)
(* for null) and the document afterwards.                                  *)
(***************************************************************************)
\* variant: a chapter gets the next sibling id like the other types
AddNewPathCounter(d, parentPath, nd) ==
    LET childPrefix == PrefixOfType(nd.type)
        nextId == generateNextChildId(d, parentPath, childPrefix)
    IN  IF parentPath = Root
            THEN <<"/", childPrefix>> \o NumToStr(nextId)
        ELSE parentPath \o <<"/", childPrefix>> \o NumToStr(nextId)

AddNewPath(d, parentPath, nd) ==
    IF nd.type = "chapter"
        THEN parentPath \o <<"/", "c">> \o NumToStr(nd.index)
    ELSE LET childPrefix == PrefixOfType(nd.type)
             nextId == generateNextChildId(d, parentPath, childPrefix)
         IN  IF parentPath = Root
                 THEN <<"/", childPrefix>> \o NumToStr(nextId)
             ELSE parentPath \o <<"/", childPrefix>> \o NumToStr(nextId)

\* variant: the fields outside metadata are not folded into it
AddNewNodeExplicitOnly(nd) ==
    LET base == [type |-> nd.type, title |-> nd.title,
                 metadata |-> IF nd.hasMetadata THEN nd.metadata ELSE NoMeta]
    IN  IF nd.type = "chapter" THEN [index |-> nd.index] @@ base ELSE base

\* variant: a key of the metadata object wins over the same-named extra field
AddNewNodeExplicitWins(nd) ==
    LET base == [type |-> nd.type, title |-> nd.title,
                 metadata |-> (IF nd.hasMetadata THEN nd.metadata ELSE NoMeta)
                                  @@ nd.rest]
    IN  IF nd.type = "chapter" THEN [index |-> nd.index] @@ base ELSE base

\* variant: every chapter is stored with the index 1
AddNewNodeIndexOne(nd) ==
    LET base == [type |-> nd.type, title |-> nd.title,
                 metadata |-> nd.rest @@ (IF nd.hasMetadata THEN nd.metadata
                                          ELSE NoMeta)]
    IN  IF nd.type = "chapter" THEN [index |-> 1] @@ base ELSE base

AddNewNode(nd) ==
    LET base == [type |-> nd.type, title |-> nd.title,
                 metadata |-> nd.rest @@ (IF nd.hasMetadata THEN nd.metadata
                                          ELSE NoMeta)]
    IN  IF nd.type = "chapter" THEN [index |-> nd.index] @@ base ELSE base

\* variant: an existing chapter path is not looked for
AddRejectedNoDuplicateCheck(d, parentPath, nd) ==
    \/ parentPath # Root /\ getNode(d, parentPath) = Null
    \/ nd.type \notin NodeTypes
    \/ (IF parentPath = Root THEN "root" ELSE getNodeTypeFromPath(parentPath))
           # ExpectedParentType(nd.type)
    \/ nd.type = "chapter" /\ ~nd.hasIndex

\* variant: the parent's type is not compared with the expected one
AddRejectedNoTypeCheck(d, parentPath, nd) ==
    \/ parentPath # Root /\ getNode(d, parentPath) = Null
    \/ nd.type \notin NodeTypes
    \/ /\ nd.type = "chapter"
       /\ \/ ~nd.hasIndex
          \/ AddNewPath(d, parentPath, nd) \in DOMAIN d.chapters

AddRejected(d, parentPath, nd) ==
    \/ parentPath # Root /\ getNode(d, parentPath) = Null
    \/ nd.type \notin NodeTypes
    \/ (IF parentPath = Root THEN "root" ELSE getNodeTypeFromPath(parentPath))
           # ExpectedParentType(nd.type)
    \/ /\ nd.type = "chapter"
       /\ \/ ~nd.hasIndex
          \/ AddNewPath(d, parentPath, nd) \in DOMAIN d.chapters

addNodeOn(d, parentPath, nd) ==
    IF AddRejected(d, parentPath, nd) THEN [path |-> Null, data |-> d]
    ELSE LET newNodePath == AddNewPath(d, parentPath, nd)
         IN  [path |-> newNodePath,
              data |-> PutNode(d, nd.type, newNodePath, AddNewNode(nd))]

AddNode(parentPath, nd) ==
    /\ UNCHANGED <<conc, removed, graph>>
    /\ LET L == loadData
           r == addNodeOn(L.data, parentPath, nd)
           ok == r.path # Null
       IN  /\ data' = r.data
           /\ dataLoaded' = TRUE
           /\ file' = IF ok THEN saveData(r.data) ELSE L.file
           /\ pre' = CallState(L.data)
           /\ last' = Call("addNode", parentPath, nd, "none", r.path,
                           ok \/ L.saved)

(***************************************************************************)
(* getNode as an operation.                                                *)
(***************************************************************************)
GetNode(nodePath) ==
    /\ UNCHANGED <<conc, removed, graph>>
    /\ LET L == loadData
       IN  /\ data' = L.data
           /\ dataLoaded' = TRUE
           /\ file' = L.file
           /\ pre' = CallState(L.data)
           /\ last' = Call("getNode", nodePath, NoData, "none",
                           getNode(L.data, nodePath), L.saved)

(***************************************************************************)
(* updateNode.                                                             *)
(***************************************************************************)
UpdateRejected(d, nodePath) ==
    \/ getNodeTypeFromPath(nodePath) = "null"
    \/ nodePath \notin DOMAIN getDictionaryByType(d, getNodeTypeFromPath(nodePath))

\* the fields of newData left after type, title and metadata are taken out
RestNewData(nd) ==
    nd.rest @@ (IF nd.hasIndex THEN [index |-> nd.index] ELSE NoMeta)

\* variant: a type in newData is written to the node
UpdatedNodeTyped(existingNode, nd) ==
    LET t == IF nd.hasTitle THEN [existingNode EXCEPT !.title = nd.title]
             ELSE existingNode
        y == IF nd.type # "none" THEN [t EXCEPT !.type = nd.type] ELSE t
    IN  [y EXCEPT !.metadata =
            RestNewData(nd)
                @@ (IF nd.hasMetadata THEN nd.metadata ELSE NoMeta)
                @@ existingNode.metadata]

\* variant: the metadata object of newData is merged last
UpdatedNodeMetadataLast(existingNode, nd) ==
    LET t == IF nd.hasTitle THEN [existingNode EXCEPT !.title = nd.title]
             ELSE existingNode
        i == IF existingNode.type = "chapter" /\ nd.hasIndex
                 THEN [t EXCEPT !.index = nd.index]
             ELSE t
    IN  [i EXCEPT !.metadata =
            (IF nd.hasMetadata THEN nd.metadata ELSE NoMeta)
                @@ RestNewData(nd)
                @@ existingNode.metadata]

\* variant: the index of a chapter is not assigned
UpdatedNodeKeepIndex(existingNode, nd) ==
    LET t == IF nd.hasTitle THEN [existingNode EXCEPT !.title = nd.title]
             ELSE existingNode
    IN  [t EXCEPT !.metadata =
            RestNewData(nd)
                @@ (IF nd.hasMetadata THEN nd.metadata ELSE NoMeta)
                @@ existingNode.metadata]

UpdatedNode(existingNode, nd) ==
    LET t == IF nd.hasTitle THEN [existingNode EXCEPT !.title = nd.title]
             ELSE existingNode
        i == IF existingNode.type = "chapter" /\ nd.hasIndex
                 THEN [t EXCEPT !.index = nd.index]
             ELSE t
    IN  [i EXCEPT !.metadata =
            RestNewData(nd)
                @@ (IF nd.hasMetadata THEN nd.metadata ELSE NoMeta)
                @@ existingNode.metadata]

updateNodeOn(d, nodePath, nd) ==
    IF UpdateRejected(d, nodePath) THEN [ok |-> FALSE, data |-> d]
    ELSE LET type == getNodeTypeFromPath(nodePath)
             existingNode == getDictionaryByType(d, type)[nodePath]
         IN  [ok |-> TRUE,
              data |-> PutNode(d, type, nodePath, UpdatedNode(existingNode, nd))]

UpdateNode(nodePath, nd) ==
    /\ UNCHANGED <<conc, removed, graph>>
    /\ LET L == loadData
           r == updateNodeOn(L.data, nodePath, nd)
       IN  /\ data' = r.data
           /\ dataLoaded' = TRUE
           /\ file' = IF r.ok THEN saveData(r.data) ELSE L.file
           /\ pre' = CallState(L.data)
           /\ last' = Call("updateNode", nodePath, nd, "none", r.ok,
                           r.ok \/ L.saved)

\* the update_outline_node tool: type is taken out of newData, the rest
\* is passed on
UpdateOutlineNode(nodePath, newData) ==
    LET updateData == [newData EXCEPT !.type = "none"]
    IN  UpdateNode(nodePath, updateData)

(***************************************************************************)
(* deleteNode.                                                             *)
(***************************************************************************)
Without(dict, keys) == [q \in DOMAIN dict \ keys |-> dict[q]]

\* variant: the cascade removes the direct children only
CascadeKeysDirect(dict, nodePath) ==
    LET prefixToDelete == nodePath \o <<"/">>
    IN  { q \in DOMAIN dict :
            /\ startsWith(q, prefixToDelete)
            /\ Len(pathParts(q)) = Len(pathParts(nodePath)) + 1 }

\* variant: the cascade matches the path itself as the prefix
CascadeKeysNoSlash(dict, nodePath) ==
    { q \in DOMAIN dict : startsWith(q, nodePath) }

\* the keys the cascade removes from one dictionary
CascadeKeys(dict, nodePath) ==
    LET prefixToDelete == nodePath \o <<"/">>
    IN  { q \in DOMAIN dict : startsWith(q, prefixToDelete) }

DeleteRejected(d, nodePath) ==
    \/ getNodeTypeFromPath(nodePath) = "null"
    \/ nodePath \notin DOMAIN getDictionaryByType(d, getNodeTypeFromPath(nodePath))

deleteNodeOn(d, nodePath) ==
    IF DeleteRejected(d, nodePath) THEN [ok |-> FALSE, data |-> d]
    ELSE LET type == getNodeTypeFromPath(nodePath)
             d1 == [d EXCEPT ![DictName(type)] = Without(@, {nodePath})]
         IN  [ok |-> TRUE,
              data |-> [volumes |-> Without(d1.volumes,
                                            CascadeKeys(d1.volumes, nodePath)),
                        acts |-> Without(d1.acts,
                                         CascadeKeys(d1.acts, nodePath)),
                        plotPoints |-> Without(d1.plotPoints,
                                         CascadeKeys(d1.plotPoints, nodePath)),
                        chapters |-> Without(d1.chapters,
                                         CascadeKeys(d1.chapters, nodePath))]]

DeleteNodeCall(nodePath) ==
    /\ UNCHANGED <<conc, graph>>
    /\ LET L == loadData
           r == deleteNodeOn(L.data, nodePath)
       IN  /\ data' = r.data
           /\ dataLoaded' = TRUE
           /\ file' = IF r.ok THEN saveData(r.data) ELSE L.file
           /\ pre' = CallState(L.data)
           /\ last' = Call("deleteNode", nodePath, NoData, "none", r.ok,
                           r.ok \/ L.saved)

DeleteNode(nodePath) == DeleteNodeCall(nodePath) /\ UNCHANGED removed

(***************************************************************************)
(* getAllChaptersSorted and getChapterWindowByPath.                        *)
(***************************************************************************)
Min(a, b) == IF a < b THEN a ELSE b

Max(a, b) == IF a > b THEN a ELSE b

\* Math.max, Math.min, a - b and a + b on JavaScript numbers
MathMax(a, b) == IF a.isNaN \/ b.isNaN THEN NaN ELSE Num(Max(a.num, b.num))

MathMin(a, b) == IF a.isNaN \/ b.isNaN THEN NaN ELSE Num(Min(a.num, b.num))

Minus(a, b) == IF a.isNaN \/ b.isNaN THEN NaN ELSE Num(a.num - b.num)

Plus(a, b) == IF a.isNaN \/ b.isNaN THEN NaN ELSE Num(a.num + b.num)

\* ToIntegerOrInfinity of an array index argument
ToInteger(x) == IF x.isNaN THEN 0 ELSE x.num

\* Array.prototype.slice(start, end)
slice(list, start, end) ==
    LET len == Len(list)
        relativeStart == ToInteger(start)
        k == IF relativeStart < 0 THEN Max(len + relativeStart, 0)
             ELSE Min(relativeStart, len)
        relativeEnd == ToInteger(end)
        final == IF relativeEnd < 0 THEN Max(len + relativeEnd, 0)
                 ELSE Min(relativeEnd, len)
    IN  SubSeq(list, k + 1, final)

\* variant: the list is left in the order of the dictionary's keys
RECURSIVE KeyOrderLists(_)
KeyOrderLists(chapters) ==
    IF chapters = {} THEN { <<>> }
    ELSE UNION { { <<c>> \o rest : rest \in KeyOrderLists(chapters \ {c}) } :
                 c \in chapters }

\* the orders sort((a, b) => a.index - b.index) can leave a set of chapters
\* in: ascending by index, chapters of equal index in the order of the
\* dictionary's keys, which the dictionaries here do not record, so every
\* order of them is taken
RECURSIVE SortedLists(_)
SortedLists(chapters) ==
    IF chapters = {} THEN { <<>> }
    ELSE LET least == { c \in chapters :
                          \A other \in chapters : c.index <= other.index }
         IN  UNION { { <<c>> \o rest : rest \in SortedLists(chapters \ {c}) } :
                     c \in least }

\* getAllChaptersSorted on document d: the lists it can return
getAllChaptersSorted(d) ==
    SortedLists({ WithPath(d.chapters[q], q) : q \in DOMAIN d.chapters })

\* OutlineManager.getAllChaptersSorted()
GetAllChaptersSorted ==
    /\ UNCHANGED <<conc, removed, graph>>
    /\ LET L == loadData
       IN  /\ data' = L.data
           /\ dataLoaded' = TRUE
           /\ file' = L.file
           /\ pre' = CallState(L.data)
           /\ \E chapters \in getAllChaptersSorted(L.data) :
                  last' = Call("getAllChaptersSorted", Null, NoData, "none",
                               chapters, L.saved)

\* allChaptersSorted.findIndex(ch => ch.path === centerChapterPath)
findIndex(list, centerChapterPath) ==
    IF \E i \in 1..Len(list) : list[i].path = centerChapterPath
        THEN (CHOOSE i \in 1..Len(list) : list[i].path = centerChapterPath) - 1
    ELSE -1

\* variant: the window is every chapter whose index is within windowSize
\* of the index of the center
WindowOfByIndex(allChaptersSorted, centerChapterPath, windowSize) ==
    LET centerIndexInArray == findIndex(allChaptersSorted, centerChapterPath)
    IN  IF centerIndexInArray = -1 \/ windowSize.isNaN THEN <<>>
        ELSE LET center == allChaptersSorted[centerIndexInArray + 1]
             IN  SelectSeq(allChaptersSorted,
                           LAMBDA ch : /\ ch.index >= center.index - windowSize.num
                                       /\ ch.index <= center.index + windowSize.num)

\* the window cut from the sorted list
WindowOf(allChaptersSorted, centerChapterPath, windowSize) ==
    LET centerIndexInArray == findIndex(allChaptersSorted, centerChapterPath)
    IN  IF centerIndexInArray = -1 THEN <<>>
        ELSE LET startIndex ==
                     MathMax(Num(0), Minus(Num(centerIndexInArray), windowSize))
                 endIndex ==
                     MathMin(Num(Len(allChaptersSorted) - 1),
                             Plus(Num(centerIndexInArray), windowSize))
             IN  slice(allChaptersSorted, startIndex, Plus(endIndex, Num(1)))

\* OutlineManager.getChapterWindowByPath(centerChapterPath, windowSize = 2),
\* called as operation op with the arguments args, which reach it as arg:
\* a path that is not a chapter path returns before anything is loaded
GetChapterWindowByPathAs(op, centerChapterPath, arg, args) ==
    /\ UNCHANGED <<conc, removed, graph>>
    /\ LET windowSize == IF arg.given THEN arg.value ELSE Num(2)
       IN  IF getNodeTypeFromPath(centerChapterPath) # "chapter"
               THEN /\ UNCHANGED <<data, dataLoaded, file>>
                    /\ pre' = CallState(data)
                    /\ last' = [Call(op, centerChapterPath, NoData, "none",
                                      <<>>, FALSE) EXCEPT !.windowSize = args]
           ELSE LET L == loadData
                IN  /\ data' = L.data
                    /\ dataLoaded' = TRUE
                    /\ file' = L.file
                    /\ pre' = CallState(L.data)
                    /\ \E allChaptersSorted \in getAllChaptersSorted(L.data) :
                           last' = [Call(op, centerChapterPath, NoData, "none",
                                         WindowOf(allChaptersSorted,
                                                  centerChapterPath, windowSize),
                                         L.saved) EXCEPT !.windowSize = args]

\* the exported getChapterWindowByPath(centerChapterPath, windowSize = 2)
GetChapterWindowByPath(centerChapterPath, args) ==
    GetChapterWindowByPathAs("getChapterWindowByPath", centerChapterPath,
        IF args.given THEN args ELSE WindowSize(2), args)

\* the get_chapter_outline_window_by_path tool: windowSize is passed on
\* as Number(args.windowSize), which is NaN when the argument is absent
GetChapterOutlineWindowByPath(centerChapterPath, args) ==
    GetChapterWindowByPathAs("get_chapter_outline_window_by_path",
        centerChapterPath,
        [given |-> TRUE, value |-> IF args.given THEN args.value ELSE NaN],
        args)

(***************************************************************************)
(* convertYAMLToJSON.  The nested source is an input: unreadable, parsed   *)
(* without an outline list, or a list of volumes                           *)
(*   [volume, metadata, acts], acts of [act_name, metadata, plot_points],  *)
(*   plot points of [plot_point_name, metadata, chapters], chapters of     *)
(*   [chapter_name, chapter_index, metadata]                               *)
(* where metadata stands for the fields the destructuring leaves over.     *)
(***************************************************************************)
VolPath(i) == <<"/", "v">> \o NumToStr(i)
ActPath(i, j) == VolPath(i) \o <<"/", "a">> \o NumToStr(j)
PlotPointPath(i, j, k) == ActPath(i, j) \o <<"/", "p">> \o NumToStr(k)
ChapterPath(i, j, k, index) ==
    PlotPointPath(i, j, k) \o <<"/", "c">> \o NumToStr(index)

\* variant: the volumes are numbered from 0
ConvVolumesZeroBased(outline) ==
    LET idx == 1..Len(outline)
    IN  [q \in { VolPath(i - 1) : i \in idx } |->
            LET i == CHOOSE i \in idx : VolPath(i - 1) = q
            IN  [type |-> "volume", title |-> outline[i].volume,
                 metadata |-> outline[i].metadata]]

ConvVolumes(outline) ==
    LET idx == 1..Len(outline)
    IN  [q \in { VolPath(i) : i \in idx } |->
            LET i == CHOOSE i \in idx : VolPath(i) = q
            IN  [type |-> "volume", title |-> outline[i].volume,
                 metadata |-> outline[i].metadata]]

ConvActs(outline) ==
    LET idx == { <<i, j>> \in (1..Len(outline)) \X (1..MaxList) :
                    j <= Len(outline[i].acts) }
    IN  [q \in { ActPath(x[1], x[2]) : x \in idx } |->
            LET x == CHOOSE x \in idx : ActPath(x[1], x[2]) = q
                yamlAct == outline[x[1]].acts[x[2]]
            IN  [type |-> "act", title |-> yamlAct.act_name,
                 metadata |-> yamlAct.metadata]]

PlotPointIdx(outline) ==
    { <<i, j, k>> \in (1..Len(outline)) \X (1..MaxList) \X (1..MaxList) :
        /\ j <= Len(outline[i].acts)
        /\ k <= Len(outline[i].acts[j].plot_points) }

ConvPlotPoints(outline) ==
    LET idx == PlotPointIdx(outline)
    IN  [q \in { PlotPointPath(x[1], x[2], x[3]) : x \in idx } |->
            LET x == CHOOSE x \in idx : PlotPointPath(x[1], x[2], x[3]) = q
                yamlPlotPoint == outline[x[1]].acts[x[2]].plot_points[x[3]]
            IN  [type |-> "plot_point", title |-> yamlPlotPoint.plot_point_name,
                 metadata |-> yamlPlotPoint.metadata]]

\* variant: a chapter gets its position in the list as its ordinal
RECURSIVE ConvChaptersOfPositional(_, _, _, _)
ConvChaptersOfPositional(chapters, i, j, k) ==
    IF chapters = <<>> THEN NoEntries
    ELSE LET n == Len(chapters)
             yamlChapter == chapters[n]
         IN  (ChapterPath(i, j, k, n) :>
                 [type |-> "chapter", title |-> yamlChapter.chapter_name,
                  index |-> yamlChapter.chapter_index,
                  metadata |-> yamlChapter.metadata])
             @@ ConvChaptersOfPositional(SubSeq(chapters, 1, n - 1), i, j, k)

\* the chapters of one plot point, assigned in array order: a later chapter
\* with the same chapter_index overwrites an earlier one
RECURSIVE ConvChaptersOf(_, _, _, _)
ConvChaptersOf(chapters, i, j, k) ==
    IF chapters = <<>> THEN NoEntries
    ELSE LET n == Len(chapters)
             yamlChapter == chapters[n]
         IN  (ChapterPath(i, j, k, yamlChapter.chapter_index) :>
                 [type |-> "chapter", title |-> yamlChapter.chapter_name,
                  index |-> yamlChapter.chapter_index,
                  metadata |-> yamlChapter.metadata])
             @@ ConvChaptersOf(SubSeq(chapters, 1, n - 1), i, j, k)

RECURSIVE ConvChapters(_, _)
ConvChapters(outline, todo) ==
    IF todo = {} THEN NoEntries
    ELSE LET x == CHOOSE x \in todo : TRUE
         IN  ConvChaptersOf(outline[x[1]].acts[x[2]].plot_points[x[3]].chapters,
                            x[1], x[2], x[3])
             @@ ConvChapters(outline, todo \ {x})

Converted(outline) ==
    [volumes |-> ConvVolumes(outline), acts |-> ConvActs(outline),
     plotPoints |-> ConvPlotPoints(outline),
     chapters |-> ConvChapters(outline, PlotPointIdx(outline))]

Chap(name, index) ==
    [chapter_name |-> name, chapter_index |-> index, metadata |-> NoMeta]

\* the nested sources the migration is run against
NestedSource(src) ==
    CASE src = "oneAct" ->
            << [volume |-> "t1", metadata |-> NoMeta, acts |->
                << [act_name |-> "t1", metadata |-> NoMeta,
                    plot_points |-> << >>] >>] >>
      [] src = "twoPlotPoints" ->
            << [volume |-> "t1", metadata |-> NoMeta, acts |->
                << [act_name |-> "t1", metadata |-> NoMeta, plot_points |->
                    << [plot_point_name |-> "t1", metadata |-> NoMeta,
                        chapters |-> << Chap("t1", 7) >>],
                       [plot_point_name |-> "t2", metadata |-> NoMeta,
                        chapters |-> << >>] >>] >>] >>

Sources == {"unreadable", "noOutline", "twoPlotPoints"}

\* the sources the migration of a concurrent caller finds
LiveSources == {"unreadable", "noOutline", "oneAct"}

\* variant: the migration starts from the document it finds
ResetDataKeep(d) == d

\* this.data = { volumes: {}, acts: {}, plotPoints: {}, chapters: {} }
ResetData(d) == EmptyData

\* the assignments of the loops, made on document d
Assigned(d, conv) ==
    [volumes |-> conv.volumes @@ d.volumes, acts |-> conv.acts @@ d.acts,
     plotPoints |-> conv.plotPoints @@ d.plotPoints,
     chapters |-> conv.chapters @@ d.chapters]

\* the migration run against the source named src, whose parsed outline
\* list is outline when it has one
ConvertYAMLToJSONOf(src, outline) ==
    /\ UNCHANGED <<conc, removed, graph>>
    /\ pre' = CallState(data)
    /\ dataLoaded' = dataLoaded
    /\ IF src = "unreadable"
           \* fs.readFile or yaml.load throws before the reset
           THEN /\ data' = data
                /\ file' = file
                /\ last' = Call("convertYAMLToJSON", Null, NoData, src,
                                FALSE, FALSE)
       ELSE IF src = "noOutline"
           \* this.data is reset, then yamlData.outline.length throws
           THEN /\ data' = ResetData(data)
                /\ file' = file
                /\ last' = Call("convertYAMLToJSON", Null, NoData, src,
                                FALSE, FALSE)
       ELSE /\ data' = Assigned(ResetData(data), Converted(outline))
            /\ file' = saveData(data')
            /\ last' = [Call("convertYAMLToJSON", Null, NoData, src,
                             TRUE, TRUE) EXCEPT !.outline = outline]

ConvertYAMLToJSON(src) ==
    ConvertYAMLToJSONOf(src, IF src \in {"unreadable", "noOutline"} THEN <<>>
                             ELSE NestedSource(src))

(***************************************************************************)
(* The operations when fs.mkdir or fs.writeFile fails: saveData logs and   *)
(* rethrows.  Each action is the handler on a call in which it attempts a  *)
(* write; a call that attempts none is the action above.                   *)
(***************************************************************************)
\* loadData finds no file and the save that is to create it throws:
\* the exception leaves loadData and the operation that called it
CreateFails == ~dataLoaded /\ file.state = "missing"

LoadThrows(op, nodePath, nd, noResult) ==
    /\ UNCHANGED <<conc, removed, graph>>
    /\ CreateFails
    /\ data' = EmptyData
    /\ dataLoaded' = TRUE
    /\ file' = file
    /\ pre' = CallState(EmptyData)
    /\ last' = Thrown(op, nodePath, nd, noResult)

GetNodeWriteFails(nodePath) == LoadThrows("getNode", nodePath, NoData, Null)

\* the node is in the dictionary when saveData throws
AddNodeWriteFails(parentPath, nd) ==
    /\ UNCHANGED <<conc, removed, graph>>
    /\ \/ LoadThrows("addNode", parentPath, nd, Null)
       \/ /\ ~CreateFails
          /\ LET L == loadData
                 r == addNodeOn(L.data, parentPath, nd)
             IN  /\ r.path # Null
                 /\ data' = r.data
                 /\ dataLoaded' = TRUE
                 /\ file' = L.file
                 /\ pre' = CallState(L.data)
                 /\ last' = Thrown("addNode", parentPath, nd, Null)

UpdateNodeWriteFails(nodePath, nd) ==
    /\ UNCHANGED <<conc, removed, graph>>
    /\ \/ LoadThrows("updateNode", nodePath, nd, FALSE)
       \/ /\ ~CreateFails
          /\ LET L == loadData
                 r == updateNodeOn(L.data, nodePath, nd)
             IN  /\ r.ok
                 /\ data' = r.data
                 /\ dataLoaded' = TRUE
                 /\ file' = L.file
                 /\ pre' = CallState(L.data)
                 /\ last' = Thrown("updateNode", nodePath, nd, FALSE)

DeleteNodeWriteFails(nodePath) ==
    /\ UNCHANGED <<conc, removed, graph>>
    /\ \/ LoadThrows("deleteNode", nodePath, NoData, FALSE)
       \/ /\ ~CreateFails
          /\ LET L == loadData
                 r == deleteNodeOn(L.data, nodePath)
             IN  /\ r.ok
                 /\ data' = r.data
                 /\ dataLoaded' = TRUE
                 /\ file' = L.file
                 /\ pre' = CallState(L.data)
                 /\ last' = Thrown("deleteNode", nodePath, NoData, FALSE)

\* the exception of saveData is caught by the migration's own catch,
\* which logs it and returns false; the converted document stays in memory
ConvertYAMLToJSONWriteFails(src) ==
    /\ UNCHANGED <<conc, removed, graph>>
    /\ src \notin {"unreadable", "noOutline"}
    /\ pre' = CallState(data)
    /\ dataLoaded' = dataLoaded
    /\ data' = Assigned(ResetData(data), Converted(NestedSource(src)))
    /\ file' = file
    /\ last' = [Call("convertYAMLToJSON", Null, NoData, src, FALSE, FALSE)
                   EXCEPT !.io = "writeFailed"]

(***************************************************************************)
(* addNode called by concurrent callers.  The calls run on the one event   *)
(* loop: a call runs alone from one await to the next, and at an await     *)
(* another call can go on.  A step below is the code between two awaits    *)
(* that reads or writes this.data, this.dataLoaded or the file; awaits     *)
(* with nothing of that between them (the log calls) are passed within a   *)
(* step.  tasks[t].pc names the await the call of caller t stands at.      *)
(***************************************************************************)
Tasks == {1, 2}

ConcMaxCalls == 1   \* calls a concurrent caller issues at most

\* op is the operation called, and parentPath its path argument; outcome
\* tells how an operation other than addNode ended ("true", "false",
\* "value" for a node or a list, "thrown"), result is the path addNode
\* returned; dictNo
\* and todo are the position of the cascade loops of deleteNode, steps the
\* nodes the loops of the migration have still to assign
NoTask ==
    [pc |-> "idle", calls |-> 0, op |-> "addNode", parentPath |-> Null,
     nd |-> NoData, newNodePath |-> Null, snapshot |-> EmptyData,
     written |-> EmptyData, result |-> Null, overlapped |-> FALSE,
     outcome |-> "none", dictNo |-> 0, todo |-> {}, steps |-> <<>>]

\* the calls still running
Running(t) == tasks[t].pc \notin {"idle", "done"}

\* where an operation starts: the migration reads its source and the
\* chapter window looks at its path before anything is loaded
FirstStep(op) ==
    CASE op = "convertYAMLToJSON" -> "readSource"
      [] op = "getChapterWindowByPath" -> "windowType"
      [] OTHER -> "loadData"

\* variant: an operation whose loadData has returned calls loadData again
AfterLoadAgain(t) == "loadData"

\* where an operation goes on when its first loadData has returned
AfterLoad(t) ==
    CASE tasks[t].op = "addNode" -> "getNode"
      [] tasks[t].op = "getNode" -> "lookup"
      [] tasks[t].op = "getChildren" -> "scan"
      [] tasks[t].op = "updateNode" -> "update"
      [] tasks[t].op = "deleteNode" -> "deleteTarget"
      [] tasks[t].op = "getChapterWindowByPath" -> "window"

\* caller t issues op(path_, nd); overlapped tells of a call that another
\* call was running while it ran
IssueOp(t, op, path_, nd) ==
    /\ ~Running(t)
    /\ tasks[t].calls < ConcMaxCalls
    /\ tasks' = [u \in Tasks |->
           IF u = t
               THEN [tasks[t] EXCEPT
                        !.pc = FirstStep(op), !.calls = @ + 1, !.op = op,
                        !.parentPath = path_, !.nd = nd,
                        !.newNodePath = Null, !.result = Null,
                        !.outcome = "none",
                        !.overlapped = \E v \in Tasks \ {t} : Running(v)]
           ELSE IF Running(u) THEN [tasks[u] EXCEPT !.overlapped = TRUE]
           ELSE tasks[u]]
    /\ UNCHANGED <<data, dataLoaded, file, lastWriter, seq>>

\* caller t issues addNode(parentPath, nd)
Issue(t, parentPath, nd) == IssueOp(t, "addNode", parentPath, nd)

\* loadData: if (this.dataLoaded) return
LoadCheck(t) ==
    /\ tasks[t].pc = "loadData"
    /\ tasks' = [tasks EXCEPT ![t].pc =
                     IF dataLoaded THEN AfterLoad(t) ELSE "readFile"]
    /\ UNCHANGED <<data, dataLoaded, file, lastWriter, seq>>

\* loadData: fs.readFile returns or throws; the content read is installed
ReadFile(t) ==
    /\ tasks[t].pc = "readFile"
    /\ IF file.state = "ok"
           THEN /\ data' = file.doc
                /\ dataLoaded' = TRUE
                /\ tasks' = [tasks EXCEPT ![t].pc = AfterLoad(t)]
       ELSE /\ UNCHANGED <<data, dataLoaded>>
            /\ tasks' = [tasks EXCEPT ![t].pc =
                            IF file.state = "missing" THEN "notFound"
                            ELSE "loadError"]
    /\ UNCHANGED <<file, lastWriter, seq>>

\* loadData, catch: the empty structure is installed (after a log)
InstallEmpty(t) ==
    /\ tasks[t].pc \in {"notFound", "loadError"}
    /\ data' = EmptyData
    /\ dataLoaded' = TRUE
    /\ tasks' = [tasks EXCEPT ![t].pc =
                     IF tasks[t].pc = "notFound" THEN "createStringify"
                     ELSE AfterLoad(t)]
    /\ UNCHANGED <<file, lastWriter, seq>>

\* saveData: JSON.stringify(this.data), after the log and the mkdir
Stringify(t) ==
    /\ tasks[t].pc \in {"createStringify", "stringify"}
    /\ tasks' = [tasks EXCEPT
                     ![t].snapshot = data,
                     ![t].pc = IF tasks[t].pc = "stringify" THEN "writeFile"
                               ELSE "createWriteFile"]
    /\ UNCHANGED <<data, dataLoaded, file, lastWriter, seq>>

\* saveData: fs.writeFile completes; after the save that ends an operation
\* the call returns: addNode the new path, the others true
WriteFile(t) ==
    /\ tasks[t].pc \in {"createWriteFile", "writeFile"}
    /\ file' = saveData(tasks[t].snapshot)
    /\ lastWriter' = t
    /\ tasks' = [tasks EXCEPT
                     ![t].written = tasks[t].snapshot,
                     ![t].pc = IF tasks[t].pc = "writeFile" THEN "done"
                               ELSE AfterLoad(t),
                     ![t].result = IF tasks[t].pc = "writeFile"
                                       THEN tasks[t].newNodePath
                                   ELSE Null,
                     ![t].outcome = IF tasks[t].pc = "writeFile" THEN "true"
                                    ELSE "none"]
    /\ UNCHANGED <<data, dataLoaded, seq>>

\* addNode: the parent is looked up by getNode, then the types are checked
ParentCheck(t) ==
    LET parentPath == tasks[t].parentPath
        nd == tasks[t].nd
        rejected ==
            \/ parentPath # Root /\ getNode(data, parentPath) = Null
            \/ nd.type \notin NodeTypes
            \/ (IF parentPath = Root THEN "root"
                ELSE getNodeTypeFromPath(parentPath))
                   # ExpectedParentType(nd.type)
            \/ nd.type = "chapter" /\ ~nd.hasIndex
    IN  /\ tasks[t].pc = "getNode"
        /\ tasks' = [tasks EXCEPT ![t].pc =
                         IF rejected THEN "done"
                         ELSE IF nd.type = "chapter" THEN "insert"
                         ELSE "getChildren"]
        /\ UNCHANGED <<data, dataLoaded, file, lastWriter, seq>>

\* generateNextChildId: getChildren reads the dictionaries; the id and the
\* path follow from what it read
ScanChildren(t) ==
    /\ tasks[t].pc = "getChildren"
    /\ tasks' = [tasks EXCEPT
                     ![t].newNodePath =
                         AddNewPath(data, tasks[t].parentPath, tasks[t].nd),
                     ![t].pc = "insert"]
    /\ UNCHANGED <<data, dataLoaded, file, lastWriter, seq>>

\* addNode: dictionary[newNodePath] = newNode; for a chapter the path is
\* built and looked up in the same run
Insert(t) ==
    LET nd == tasks[t].nd
        newNodePath ==
            IF nd.type = "chapter"
                THEN AddNewPath(data, tasks[t].parentPath, nd)
            ELSE tasks[t].newNodePath
    IN  /\ tasks[t].pc = "insert"
        /\ IF nd.type = "chapter" /\ newNodePath \in DOMAIN data.chapters
               THEN /\ data' = data
                    /\ tasks' = [tasks EXCEPT ![t].pc = "done"]
           ELSE /\ data' = PutNode(data, nd.type, newNodePath, AddNewNode(nd))
                /\ tasks' = [tasks EXCEPT ![t].newNodePath = newNodePath,
                                          ![t].pc = "stringify"]
        /\ UNCHANGED <<dataLoaded, file, lastWriter, seq>>

(***************************************************************************)
(* The store driven sequentially by a caller: a call is issued when the    *)
(* previous one has returned.                                              *)
(***************************************************************************)
Idle == last.op = "none"

\* the caller takes the result; the next call can be issued
Return ==
    /\ UNCHANGED <<conc, removed, graph>>
    /\ last.op # "none"
    /\ last' = NoCall
    /\ pre' = NoCallState
    /\ UNCHANGED <<data, dataLoaded, file>>

\* the bound on generated ordinals
WithinOrd(d, parentPath, nd, maxOrd) ==
    nd.type \in NodeTypes \ {"chapter"} =>
        generateNextChildId(d, parentPath, PrefixOfType(nd.type)) <= maxOrd

\* the bound on the nodes addNode adds
WithinSize(d, nd) ==
    IF nd.type = "chapter" THEN ChapterCount(d) <= MaxChapters
    ELSE InnerCount(d) <= MaxInner

Init ==
    /\ data = EmptyData
    /\ dataLoaded = FALSE
    /\ file \in { [state |-> "missing", doc |-> EmptyData],
                  [state |-> "corrupt", doc |-> EmptyData],
                  [state |-> "ok", doc |-> EmptyData] }
    /\ pre = NoCallState
    /\ last = NoCall
    /\ tasks = [t \in Tasks |-> NoTask]
    /\ lastWriter = 0
    /\ removed = {}
    /\ graph = NoGraphFile

(***************************************************************************)
(* Spec: the structure of the outline.  Every node has the same title and  *)
(* no metadata of its own; paths, ordinals and chapter indices vary.       *)
(***************************************************************************)
Indices == {7, 70}

\* paths that are absent or malformed
OtherPaths == { <<"/", "v", "9">>, <<"/", "v", "1", "/">> }

\* chapter references, and a path of five segments
References ==
    { <<"7">>, <<"c", "7">>,
      <<"/", "v", "1", "/", "a", "1", "/", "p", "1", "/", "c", "7",
        "/", "x", "1">> }

AddData ==
    { [NoData EXCEPT !.type = t, !.hasTitle = TRUE, !.title = "t1"] :
        t \in NodeTypes \cup {"scene"} }
    \cup
    { [NoData EXCEPT !.type = "chapter", !.hasTitle = TRUE, !.title = "t1",
                     !.hasIndex = TRUE, !.index = i] : i \in Indices }

\* newData: an index for a chapter (or for a path that is no node's), or
\* a title
IndexPatch == [NoData EXCEPT !.hasIndex = TRUE, !.index = 7]
TitlePatch == [NoData EXCEPT !.hasTitle = TRUE, !.title = "t1"]

UpdateCalls ==
    { <<nodePath, IndexPatch>> :
        nodePath \in DOMAIN loadData.data.chapters \cup {<<"/", "v", "9">>} }
    \cup { <<nodePath, TitlePatch>> : nodePath \in AllPaths(loadData.data) }

Paths == AllPaths(loadData.data) \cup OtherPaths

Next ==
    \/ \E nodePath \in Paths \cup References : Idle /\ GetNode(nodePath)
    \/ \E parentPath \in {Root} \cup Paths, nd \in AddData :
           /\ Idle
           /\ WithinOrd(loadData.data, parentPath, nd, MaxOrd)
           /\ AddNode(parentPath, nd)
           /\ data' # pre'.data => WithinSize(data', nd)
    \/ \E call \in UpdateCalls : Idle /\ UpdateNode(call[1], call[2])
    \/ \E nodePath \in Paths : Idle /\ DeleteNode(nodePath)
    \/ \E src \in Sources : Idle /\ ConvertYAMLToJSON(src)
    \/ Return

Spec == Init /\ [][Next]_vars

(***************************************************************************)
(* SpecAttr: the attributes of the nodes.  Titles and metadata vary, on a  *)
(* store of a few nodes.                                                   *)
(***************************************************************************)
AttrAddData ==
    { [NoData EXCEPT !.type = t, !.hasTitle = TRUE, !.title = "t1",
                     !.hasIndex = (t = "chapter"),
                     !.index = IF t = "chapter" THEN 7 ELSE 0,
                     !.hasMetadata = TRUE,
                     !.metadata = [k |-> 1, x |-> 1],
                     !.rest = [x |-> 2]] : t \in NodeTypes }
    \cup
    { [NoData EXCEPT !.type = t, !.hasTitle = TRUE, !.title = "t2",
                     !.hasIndex = (t = "chapter"),
                     !.index = IF t = "chapter" THEN 7 ELSE 0] :
        t \in NodeTypes }

AttrPaths == AllPaths(loadData.data) \cup { <<"/", "v", "9">>, <<"7">> }

NextAttr ==
    \/ \E nodePath \in AttrPaths : Idle /\ GetNode(nodePath)
    \/ \E parentPath \in {Root} \cup AttrPaths, nd \in AttrAddData :
           /\ Idle
           /\ WithinOrd(loadData.data, parentPath, nd, AttrMaxOrd)
           /\ AddNode(parentPath, nd)
           /\ NodeCount(data') <= AttrMaxNodes
    \/ \E nodePath \in AttrPaths : Idle /\ DeleteNode(nodePath)
    \/ Return

SpecAttr == Init /\ [][NextAttr]_vars

(***************************************************************************)
(* SpecUpd: updateNode with patches of every shape, on a store of a few    *)
(* nodes that all start with the same metadata.                            *)
(***************************************************************************)
UpdMaxNodes == 4   \* nodes the store holds at most, under updates
UpdMaxOrd == 1     \* the bound on sibling ordinals, under updates

UpdAddData ==
    { [NoData EXCEPT !.type = t, !.hasTitle = TRUE, !.title = "t1",
                     !.hasIndex = (t = "chapter"),
                     !.index = IF t = "chapter" THEN 7 ELSE 0,
                     !.hasMetadata = TRUE,
                     !.metadata = [k |-> 1, x |-> 1, z |-> 1]] :
        t \in NodeTypes }

\* newData with a type and a title
TypedPatch == [NoData EXCEPT !.type = "act", !.hasTitle = TRUE, !.title = "t2"]

\* newData with a metadata object and extra fields
MergePatch ==
    [NoData EXCEPT !.hasMetadata = TRUE, !.metadata = [k |-> 2, y |-> 1],
                   !.rest = [x |-> 3, y |-> 2]]

\* newData with an index
NewIndexPatch == [NoData EXCEPT !.hasIndex = TRUE, !.index = 70]

UpdPaths == AllPaths(loadData.data) \cup { <<"/", "v", "9">> }

NextUpd ==
    \/ \E parentPath \in {Root} \cup UpdPaths, nd \in UpdAddData :
           /\ Idle
           /\ WithinOrd(loadData.data, parentPath, nd, UpdMaxOrd)
           /\ AddNode(parentPath, nd)
           /\ NodeCount(data') <= UpdMaxNodes
    \/ \E nodePath \in UpdPaths, nd \in {TypedPatch, MergePatch} :
           Idle /\ UpdateNode(nodePath, nd)
    \/ \E nodePath \in DOMAIN loadData.data.chapters \cup {<<"/", "v", "9">>} :
           Idle /\ UpdateNode(nodePath, NewIndexPatch)
    \/ \E nodePath \in UpdPaths : Idle /\ UpdateOutlineNode(nodePath, TypedPatch)
    \/ Return

SpecUpd == Init /\ [][NextUpd]_vars

(***************************************************************************)
(* SpecWin: the chapter window, on a store whose chapters have indices     *)
(* with gaps, and the operations called with a chapter reference.          *)
(***************************************************************************)
WinMaxOrd == 1        \* the bound on sibling ordinals, under window queries
WinMaxInner == 3      \* volumes, acts and plot points, under window queries
WinMaxChapters == 5   \* chapters, under window queries
MaxWindow == 2        \* the largest windowSize asked for

WinIndices == {1, 2, 3, 7, 70}

WinAddData ==
    { [NoData EXCEPT !.type = t, !.hasTitle = TRUE, !.title = "t1"] :
        t \in NodeTypes \ {"chapter"} }
    \cup
    { [NoData EXCEPT !.type = "chapter", !.hasTitle = TRUE, !.title = "t1",
                     !.hasIndex = TRUE, !.index = i] : i \in WinIndices }

\* the chapters, an absent chapter path, a volume path and the references
\* to chapter 7
Centers ==
    DOMAIN loadData.data.chapters
        \cup { <<"/", "v", "1", "/", "a", "1", "/", "p", "1", "/", "c", "9">>,
                <<"/", "v", "1">>, <<"7">>, <<"c", "7">> }

WindowSizes == {NoWindowSize} \cup { WindowSize(w) : w \in 0..MaxWindow }

ChapterRefs == DOMAIN loadData.data.chapters \cup { <<"7">>, <<"c", "7">> }

NextWin ==
    \/ \E parentPath \in {Root} \cup AllPaths(loadData.data), nd \in WinAddData :
           /\ Idle
           /\ WithinOrd(loadData.data, parentPath, nd, WinMaxOrd)
           /\ AddNode(parentPath, nd)
           /\ InnerCount(data') <= WinMaxInner
           /\ ChapterCount(data') <= WinMaxChapters
    \/ \E centerChapterPath \in Centers, args \in WindowSizes :
           Idle /\ GetChapterWindowByPath(centerChapterPath, args)
    \/ \E centerChapterPath \in Centers, args \in WindowSizes :
           Idle /\ GetChapterOutlineWindowByPath(centerChapterPath, args)
    \/ \E nodePath \in ChapterRefs : Idle /\ UpdateNode(nodePath, TitlePatch)
    \/ \E nodePath \in ChapterRefs : Idle /\ DeleteNode(nodePath)
    \/ Return

SpecWin == Init /\ [][NextWin]_vars

(***************************************************************************)
(* SpecFail: the operations on a storage whose writes can fail and whose   *)
(* file can be unreadable.                                                 *)
(***************************************************************************)
FailMaxOrd == 1     \* the bound on sibling ordinals, under failing storage
FailMaxNodes == 4   \* nodes the store holds at most, under failing storage

FailAddData ==
    { [NoData EXCEPT !.type = t, !.hasTitle = TRUE, !.title = "t1",
                     !.hasIndex = (t = "chapter"),
                     !.index = IF t = "chapter" THEN 7 ELSE 0] :
        t \in NodeTypes }

FailPaths == AllPaths(loadData.data) \cup { <<"/", "v", "9">> }

FailUpdateCalls ==
    { <<nodePath, NewIndexPatch>> :
        nodePath \in DOMAIN loadData.data.chapters \cup {<<"/", "v", "9">>} }

NextFail ==
    \/ \E nodePath \in FailPaths : Idle /\ GetNode(nodePath)
    \/ \E nodePath \in FailPaths : Idle /\ GetNodeWriteFails(nodePath)
    \/ \E parentPath \in {Root} \cup FailPaths, nd \in FailAddData :
           /\ Idle
           /\ WithinOrd(loadData.data, parentPath, nd, FailMaxOrd)
           /\ \/ AddNode(parentPath, nd)
              \/ AddNodeWriteFails(parentPath, nd)
           /\ NodeCount(data') <= FailMaxNodes
    \/ \E call \in FailUpdateCalls : Idle /\ UpdateNode(call[1], call[2])
    \/ \E call \in FailUpdateCalls :
           Idle /\ UpdateNodeWriteFails(call[1], call[2])
    \/ \E nodePath \in FailPaths : Idle /\ DeleteNode(nodePath)
    \/ \E nodePath \in FailPaths : Idle /\ DeleteNodeWriteFails(nodePath)
    \/ \E src \in Sources : Idle /\ ConvertYAMLToJSON(src)
    \/ \E src \in Sources : Idle /\ ConvertYAMLToJSONWriteFails(src)
    \/ Return

SpecFail == Init /\ [][NextFail]_vars

(***************************************************************************)
(* SpecConc: two callers whose addNode calls interleave at the awaits.     *)
(***************************************************************************)
\* caller t adds a volume, an act to the first volume, or a plot point to
\* an act that is not there; the title names the caller
ConcCalls(t) ==
    LET title == IF t = 1 THEN "t1" ELSE "t2"
    IN  { <<Root, [NoData EXCEPT !.type = "volume", !.hasTitle = TRUE,
                                 !.title = title]>>,
          <<(<<"/", "v", "1">>),
            [NoData EXCEPT !.type = "act", !.hasTitle = TRUE,
                           !.title = title]>>,
          <<(<<"/", "v", "9", "/", "a", "1">>),
            [NoData EXCEPT !.type = "plot_point", !.hasTitle = TRUE,
                           !.title = title]>> }

NextConc ==
    \/ \E t \in Tasks : \E call \in ConcCalls(t) : Issue(t, call[1], call[2])
    \/ \E t \in Tasks : LoadCheck(t)
    \/ \E t \in Tasks : ReadFile(t)
    \/ \E t \in Tasks : InstallEmpty(t)
    \/ \E t \in Tasks : Stringify(t)
    \/ \E t \in Tasks : WriteFile(t)
    \/ \E t \in Tasks : ParentCheck(t)
    \/ \E t \in Tasks : ScanChildren(t)
    \/ \E t \in Tasks : Insert(t)

SpecConc == Init /\ [][NextConc]_vars

(***************************************************************************)
(* Properties.                                                             *)
(***************************************************************************)
Added == last.op = "addNode" /\ last.result # Null

Deleted == last.op = "deleteNode" /\ last.result

\* the number a path ends with
Ordinal(q) == parseInt(substring1(LastSegment(q))).num

\* the documents a state holds: in memory, and in the file
Documents == {data} \cup (IF file.state = "ok" THEN {file.doc} ELSE {})

\* C1: every act, plot point and chapter has its parent path in the store,
\* and the parent of a volume is the root
C1_ParentPresent ==
    \A d \in Documents :
        /\ \A q \in DOMAIN d.volumes : getParentPath(q) = Root
        /\ \A q \in DOMAIN d.acts : getParentPath(q) \in DOMAIN d.volumes
        /\ \A q \in DOMAIN d.plotPoints : getParentPath(q) \in DOMAIN d.acts
        /\ \A q \in DOMAIN d.chapters : getParentPath(q) \in DOMAIN d.plotPoints

\* an act was deleted with a plot point and a chapter below it, and its
\* volume stays
C1_Witness ==
    /\ Deleted
    /\ last.path \in DOMAIN pre.data.acts
    /\ DOMAIN pre.data.plotPoints \ DOMAIN data.plotPoints # {}
    /\ DOMAIN pre.data.chapters \ DOMAIN data.chapters # {}
    /\ DOMAIN data.volumes # {}

\* q is the deleted path or lies below it
InSubtree(q, nodePath) == q = nodePath \/ startsWith(q, nodePath \o <<"/">>)

DictNames == {"volumes", "acts", "plotPoints", "chapters"}

\* C2: a successful deleteNode(p) removes p and every key below p, and
\* keeps every other key with its node unchanged
C2_DeleteFrame ==
    Deleted =>
        \A n \in DictNames :
            /\ DOMAIN data[n] =
                   { q \in DOMAIN pre.data[n] : ~InSubtree(q, last.path) }
            /\ \A q \in DOMAIN data[n] : data[n][q] = pre.data[n][q]

\* a chapter was deleted while a chapter whose path continues the deleted
\* path by a digit stays
C2_Witness ==
    /\ Deleted
    /\ \E q \in DOMAIN data.chapters :
           /\ startsWith(q, last.path)
           /\ q \in DOMAIN pre.data.chapters

\* C3: no two chapters have the same index, and addNode of a chapter whose
\* index an existing chapter has returns null
C3_UniqueIndex ==
    /\ \A q1, q2 \in DOMAIN data.chapters :
           q1 # q2 => data.chapters[q1].index # data.chapters[q2].index
    /\ ( /\ last.op = "addNode"
         /\ last.nd.type = "chapter"
         /\ last.nd.hasIndex
         /\ \E q \in DOMAIN pre.data.chapters :
                pre.data.chapters[q].index = last.nd.index )
       => last.result = Null

\* the same-type siblings under a parent, found by their parent path
Siblings(d, parentPath, type) ==
    { q \in DOMAIN d[DictName(type)] : getParentPath(q) = parentPath }

\* C5: a non-chapter addNode returns the parent path extended by the type
\* prefix and 1 + the largest ordinal of the same-type children
C5_NextOrdinal ==
    (Added /\ last.nd.type # "chapter") =>
        LET sibs == Siblings(pre.data, last.path, last.nd.type)
            n == 1 + SetMax({ Ordinal(q) : q \in sibs } \cup {0})
        IN  /\ getParentPath(last.result) = last.path
            /\ LastSegment(last.result)
                   = <<PrefixOfType(last.nd.type)>> \o NumToStr(n)

\* an ordinal below the largest one is free and is not handed out
C5_Witness ==
    /\ Added
    /\ last.nd.type # "chapter"
    /\ Ordinal(last.result) = 3
    /\ \E q \in Siblings(pre.data, last.path, last.nd.type) : Ordinal(q) = 2
    /\ \A q \in Siblings(pre.data, last.path, last.nd.type) : Ordinal(q) # 1

\* C6: a chapter addNode with index n under P returns P + "/c" + n
C6_ChapterPath ==
    (Added /\ last.nd.type = "chapter") =>
        LET seg == LastSegment(last.result)
        IN  /\ getParentPath(last.result) = last.path
            /\ Head(seg) = "c"
            /\ DigitPrefix(Tail(seg)) = Tail(seg)
            /\ Len(seg) > 1
            /\ Head(Tail(seg)) # "0"
            /\ parseInt(Tail(seg)).num = last.nd.index

\* a chapter was added to a plot point that already had one
C6_Witness ==
    /\ Added
    /\ last.nd.type = "chapter"
    /\ Siblings(pre.data, last.path, "chapter") # {}

DepthOfType(type) ==
    CASE type = "volume" -> 1
      [] type = "act" -> 2
      [] type = "plot_point" -> 3
      [] type = "chapter" -> 4

\* C7: every node is in the dictionary of its type, at the depth of its
\* type, and its last segment starts with the letter of its type
C7_TypeDepth ==
    \A d \in Documents :
        \A type \in NodeTypes :
            \A q \in DOMAIN d[DictName(type)] :
                /\ d[DictName(type)][q].type = type
                /\ Len(pathParts(q)) = DepthOfType(type)
                /\ Len(split(q)) = DepthOfType(type) + 1
                /\ Head(LastSegment(q)) = PrefixOfType(type)

\* a chapter was added and all four dictionaries hold a node
C7_Witness ==
    /\ Added
    /\ last.nd.type = "chapter"
    /\ \A n \in DictNames : DOMAIN data[n] # {}

\* the parent type addNode requires for a type
RequiredParent(type) ==
    CASE type = "volume" -> "root"
      [] type = "act" -> "volume"
      [] type = "plot_point" -> "act"
      [] type = "chapter" -> "plot_point"

\* what the parent path is in document d
ActualParent(d, parentPath) ==
    IF parentPath = Root THEN "root"
    ELSE IF \E n \in DictNames : parentPath \in DOMAIN d[n]
        THEN LET n == CHOOSE n \in DictNames : parentPath \in DOMAIN d[n]
             IN  d[n][parentPath].type
    ELSE "absent"

TypeMismatch ==
    /\ last.op = "addNode"
    /\ last.nd.type \in NodeTypes
    /\ ActualParent(pre.data, last.path)
           \notin {"absent", RequiredParent(last.nd.type)}

\* C8: addNode under a parent of the wrong type returns null and leaves
\* the four dictionaries as they were
C8_TypeMismatch ==
    TypeMismatch => (last.result = Null /\ data = pre.data)

\* an act was to be added directly under the root of a store with volumes
C8_Witness ==
    /\ TypeMismatch
    /\ last.nd.type = "act"
    /\ last.path = Root
    /\ DOMAIN pre.data.volumes # {}

\* the parent path is of the type the node type requires
ValidPair(d, parentPath, nd) ==
    /\ nd.type \in NodeTypes
    /\ ActualParent(d, parentPath) = RequiredParent(nd.type)
    /\ nd.type = "chapter" => nd.hasIndex

\* the metadata of the input: the explicit object and the extra fields
InputMetadata(nd) ==
    LET explicit == IF nd.hasMetadata THEN nd.metadata ELSE NoMeta
    IN  [key \in DOMAIN explicit \cup DOMAIN nd.rest |->
            IF key \in DOMAIN nd.rest THEN nd.rest[key] ELSE explicit[key]]

\* getNode of the returned path gives the input back
ReadsBack ==
    LET node == getNode(data, last.result)
    IN  /\ last.result # Null
        /\ node # Null
        /\ node.path = last.result
        /\ node.type = last.nd.type
        /\ node.title = last.nd.title
        /\ node.metadata = InputMetadata(last.nd)
        /\ last.nd.type = "chapter" => node.index = last.nd.index

\* the path of the chapter to add is taken
ChapterPathTaken ==
    /\ last.nd.type = "chapter"
    /\ last.nd.hasIndex
    /\ last.path \o <<"/", "c">> \o NumToStr(last.nd.index)
           \in DOMAIN pre.data.chapters

\* C4 as stated: for every valid parentPath/type pair addNode returns a
\* path, and getNode of that path returns the input
C4_ReadsBackAlways ==
    (last.op = "addNode" /\ ValidPair(pre.data, last.path, last.nd))
        => ReadsBack

\* C4: for every valid parentPath/type pair, the path of a chapter not
\* being taken, addNode returns a path and getNode of it returns the input
C4_ReadsBack ==
    ( /\ last.op = "addNode"
      /\ ValidPair(pre.data, last.path, last.nd)
      /\ ~ChapterPathTaken )
        => ReadsBack

\* a chapter was added with a metadata object and an extra field
C4_Witness ==
    /\ Added
    /\ last.nd.type = "chapter"
    /\ last.nd.hasMetadata
    /\ last.nd.rest # NoMeta

\* a call that must fail for the shape of its arguments or of the store
StructuralFailure ==
    \/ /\ last.op = "addNode"
       /\ \/ ActualParent(pre.data, last.path) = "absent"
          \/ last.nd.type \notin NodeTypes
          \/ ActualParent(pre.data, last.path) # RequiredParent(last.nd.type)
          \/ last.nd.type = "chapter" /\ ~last.nd.hasIndex
          \/ ChapterPathTaken
    \/ /\ last.op \in {"updateNode", "deleteNode", "getNode"}
       /\ last.path \notin AllPaths(pre.data)

ReturnedFailure ==
    IF last.op \in {"addNode", "getNode"} THEN last.result = Null
    ELSE last.result = FALSE

\* C9 as stated: a structural failure returns null or false, leaves the
\* document in memory unchanged and writes nothing
C9_FailureNoSave ==
    StructuralFailure =>
        /\ ReturnedFailure
        /\ data = pre.data
        /\ ~last.saved
        /\ file = pre.file

\* C9: a structural failure returns null or false and leaves the document
\* in memory unchanged; the file is written only by the load of a first
\* call that finds it missing, which creates it with the empty document
C9_FailureNoChange ==
    StructuralFailure =>
        /\ ReturnedFailure
        /\ data = pre.data
        /\ ~last.saved => file = pre.file
        /\ last.saved =>
              /\ pre.file.state = "missing"
              /\ file = FileOf(EmptyData)
              /\ data = EmptyData

\* a chapter whose path is taken was to be added
C9_Witness ==
    /\ StructuralFailure
    /\ last.op = "addNode"
    /\ ChapterPathTaken
    /\ ActualParent(pre.data, last.path) = "plot_point"

Seven == <<"7">>
CSeven == <<"c", "7">>

\* C10: getNode of "7", of "c7" and of the full path returns the chapter
\* with index 7 when there is one, and null when there is none
C10_ChapterReference ==
    (last.op = "getNode" /\ last.path \in {Seven, CSeven}) =>
        IF \E q \in DOMAIN data.chapters : data.chapters[q].index = 7
            THEN \E q \in DOMAIN data.chapters :
                    /\ data.chapters[q].index = 7
                    /\ last.result = WithPath(data.chapters[q], q)
                    /\ getNode(data, q) = last.result
        ELSE last.result = Null

Mutated ==
    \/ last.op \in {"updateNode", "deleteNode"} /\ last.result = TRUE
    \/ Added
    \/ last.op = "convertYAMLToJSON" /\ last.result = TRUE

\* C15: when a successful addNode, updateNode, deleteNode or migration has
\* returned, the file holds the document that is in memory
C15_SavedOnReturn == Mutated => file = FileOf(data)

\* the index of a chapter was updated, and the update changed the chapter
C15_Witness ==
    /\ last.op = "updateNode"
    /\ last.result = TRUE
    /\ last.nd.hasIndex
    /\ data # pre.data
    /\ pre.file = FileOf(pre.data)

\* an operation that starts with loadData
Loading == last.op \in {"getNode", "addNode", "updateNode", "deleteNode"}

Explicit(nd) == IF nd.hasMetadata THEN nd.metadata ELSE NoMeta

\* C20: the metadata addNode stores has the keys of the explicit metadata
\* object and of the extra input fields, an extra field winning over a
\* same-named key of the object; type, title and index are not among them
C20_AddMetadata ==
    Added =>
        LET stored == data[DictName(last.nd.type)][last.result].metadata
            explicit == Explicit(last.nd)
            extra == last.nd.rest
        IN  /\ DOMAIN stored = DOMAIN explicit \cup DOMAIN extra
            /\ \A key \in DOMAIN extra : stored[key] = extra[key]
            /\ \A key \in DOMAIN explicit \ DOMAIN extra :
                   stored[key] = explicit[key]
            /\ DOMAIN stored \cap {"type", "title", "index"} = {}

\* a plot point was added whose metadata object and extra fields share a
\* key with different values
C20_Witness ==
    /\ Added
    /\ last.nd.type = "plot_point"
    /\ \E key \in DOMAIN Explicit(last.nd) \cap DOMAIN last.nd.rest :
           Explicit(last.nd)[key] # last.nd.rest[key]

Updated == last.op = "updateNode" /\ last.result = TRUE

\* the node at path q of document d
NodeAt(d, q) == d[DictName(getNodeTypeFromPath(q))][q]

\* C18: updateNode leaves the key sets of the four dictionaries and every
\* node but the addressed one as they were; the addressed node keeps its
\* type and its fields, and only title, index (of a chapter) and metadata
\* change
C18_UpdateFrame ==
    last.op = "updateNode" =>
        /\ \A n \in DictNames :
               /\ DOMAIN data[n] = DOMAIN pre.data[n]
               /\ \A q \in DOMAIN data[n] \ {last.path} :
                      data[n][q] = pre.data[n][q]
        /\ Updated =>
               LET old == NodeAt(pre.data, last.path)
                   new == NodeAt(data, last.path)
               IN  /\ new.type = old.type
                   /\ DOMAIN new = DOMAIN old
                   /\ \A f \in DOMAIN new \ {"title", "index", "metadata"} :
                          new[f] = old[f]
                   /\ old.type # "chapter" => "index" \notin DOMAIN new

\* a plot point was updated with newData that names another type
C18_Witness ==
    /\ Updated
    /\ last.nd.type = "act"
    /\ NodeAt(pre.data, last.path).type = "plot_point"
    /\ NodeAt(data, last.path) # NodeAt(pre.data, last.path)

\* C19: after updateNode the metadata keeps the keys newData does not
\* mention, takes the keys of the metadata object of newData, and takes
\* the extra fields of newData last, over both
C19_UpdateMerge ==
    Updated =>
        LET old == NodeAt(pre.data, last.path).metadata
            new == NodeAt(data, last.path).metadata
            explicit == Explicit(last.nd)
            extra == last.nd.rest
            index == IF last.nd.hasIndex THEN {"index"} ELSE {}
        IN  /\ DOMAIN old \cup DOMAIN explicit \cup DOMAIN extra
                   \subseteq DOMAIN new
            /\ DOMAIN new \subseteq
                   DOMAIN old \cup DOMAIN explicit \cup DOMAIN extra \cup index
            /\ \A key \in DOMAIN extra : new[key] = extra[key]
            /\ \A key \in DOMAIN explicit \ DOMAIN extra :
                   new[key] = explicit[key]
            /\ \A key \in DOMAIN old \ (DOMAIN explicit \cup DOMAIN extra \cup index) :
                   new[key] = old[key]

\* the update kept a key, overwrote one from the metadata object, one from
\* an extra field, and an extra field won over the metadata object
C19_Witness ==
    /\ Updated
    /\ NodeAt(pre.data, last.path).metadata = [k |-> 1, x |-> 1, z |-> 1]
    /\ NodeAt(data, last.path).metadata = [k |-> 2, x |-> 3, y |-> 2, z |-> 1]

WindowCall ==
    last.op \in {"getChapterWindowByPath", "get_chapter_outline_window_by_path"}

\* r is the part of a list of all chapters sorted by index that reaches w
\* positions to either side of the position of the center, cut at the ends
IsWindow(r, d, center, w) ==
    \E L \in getAllChaptersSorted(d) :
        \E pos \in 0..(Len(L) - 1) :
            /\ L[pos + 1].path = center
            /\ r = SubSeq(L, Max(0, pos - w) + 1, Min(Len(L) - 1, pos + w) + 1)
            /\ Len(r) = Min(pos, w) + 1 + Min(Len(L) - 1 - pos, w)

\* C12: for an existing center chapter and a windowSize w >= 0 the window
\* is the slice of the sorted list of all chapters from position
\* max(0, pos-w) to min(n-1, pos+w): at most 2w+1 chapters, the center
\* among them
C12_Window ==
    ( /\ WindowCall
      /\ last.path \in DOMAIN pre.data.chapters
      /\ last.windowSize.given ) =>
        LET w == last.windowSize.value.num
        IN  /\ IsWindow(last.result, pre.data, last.path, w)
            /\ Len(last.result) <= 2 * w + 1
            /\ \E i \in 1..Len(last.result) : last.result[i].path = last.path

\* a window of size 1 in the middle of five chapters whose indices have a
\* gap next to the center: one chapter to each side
C12_Witness ==
    /\ WindowCall
    /\ last.windowSize = WindowSize(1)
    /\ ChapterCount(pre.data) = 5
    /\ Len(last.result) = 3
    /\ last.result[2].path = last.path
    /\ last.result[2].index = 7
    /\ last.result[1].index = 3
    /\ last.result[3].index = 70

\* C13: the tool called without windowSize for an existing chapter
\* returns the window of size 2 around it
C13_DefaultWindow ==
    ( /\ last.op = "get_chapter_outline_window_by_path"
      /\ last.path \in DOMAIN pre.data.chapters
      /\ ~last.windowSize.given ) =>
        IsWindow(last.result, pre.data, last.path, 2)

\* the chapters of document d that have index 7
ChaptersSeven(d) == { q \in DOMAIN d.chapters : d.chapters[q].index = 7 }

\* C11: updateNode, deleteNode and the window query called with "7" or
\* "c7" return and change what they do when called with the path of the
\* chapter whose index is 7
C11_ReferenceActs ==
    (last.path \in {Seven, CSeven} /\ ChaptersSeven(pre.data) # {}) =>
        \E q \in ChaptersSeven(pre.data) :
            /\ last.op = "updateNode" =>
                   /\ last.result = updateNodeOn(pre.data, q, last.nd).ok
                   /\ data = updateNodeOn(pre.data, q, last.nd).data
            /\ last.op = "deleteNode" =>
                   /\ last.result = deleteNodeOn(pre.data, q).ok
                   /\ data = deleteNodeOn(pre.data, q).data
            /\ (WindowCall /\ last.windowSize.given) =>
                   IsWindow(last.result, pre.data, q,
                            last.windowSize.value.num)

\* the call read a file that is there and could not be read or parsed
ReadFailed == Loading /\ ~pre.dataLoaded /\ pre.file.state = "corrupt"

\* C16: a call ends with an exception exactly when a write of it failed or
\* its read of the file failed for another reason than a missing file
C16_StorageFailureThrows ==
    last.op # "none" =>
        (last.thrown <=> (ReadFailed \/ last.io = "writeFailed"))

Succeeded(t) == tasks[t].pc = "done" /\ tasks[t].result # Null

\* the file holds, at the path the call of t returned, the node it added
Persisted(t) ==
    LET dictionary == getDictionaryByType(file.doc, tasks[t].nd.type)
    IN  /\ file.state = "ok"
        /\ tasks[t].result \in DOMAIN dictionary
        /\ dictionary[tasks[t].result] = AddNewNode(tasks[t].nd)

\* C14: nothing orders the loads and saves of concurrent calls: the file
\* is what the write that completed last carried, and the node of a
\* successful addNode is sure to be in the file only when no other call
\* ran while it ran
C14_LastWriterWins ==
    /\ lastWriter # 0 => file = FileOf(tasks[lastWriter].written)
    /\ \A t \in Tasks :
           (Succeeded(t) /\ ~tasks[t].overlapped) => Persisted(t)

\* both calls have returned a path, the same one, and the file, written
\* last by the other caller, lacks the node of the caller that wrote first
C14_Witness ==
    \E t, u \in Tasks :
        /\ t # u
        /\ Succeeded(t)
        /\ Succeeded(u)
        /\ tasks[t].result = tasks[u].result
        /\ lastWriter = u
        /\ Persisted(u)
        /\ ~Persisted(t)

(***************************************************************************)
(* SpecClassify: getNodeTypeFromPath applied to paths of up to MaxDepth    *)
(* segments, each segment a letter and a digit, written with a leading     *)
(* slash, with a trailing slash as well, or without the leading slash.     *)
(***************************************************************************)
MaxDepth == 5

Letters == {"v", "a", "p", "c"}

Shapes == {"plain", "trailing", "relative"}

SegmentLists == UNION { [1..n -> Letters] : n \in 0..MaxDepth }

PathOfSegments(letters, shape) ==
    LET segments == [i \in 1..Len(letters) |-> <<letters[i], "1">>]
    IN  CASE shape = "plain" -> <<"/">> \o join(segments)
          [] shape = "trailing" -> <<"/">> \o join(segments) \o <<"/">>
          [] shape = "relative" -> join(segments)

ClassifyInputs ==
    { PathOfSegments(letters, shape) : letters \in SegmentLists, shape \in Shapes }

Classify(nodePath) ==
    /\ UNCHANGED <<conc, removed, graph>>
    /\ pre' = CallState(data)
    /\ last' = Call("getNodeTypeFromPath", nodePath, NoData, "none",
                    getNodeTypeFromPath(nodePath), FALSE)
    /\ UNCHANGED <<data, dataLoaded, file>>

NextClassify ==
    \/ \E nodePath \in ClassifyInputs : Idle /\ Classify(nodePath)
    \/ Return

SpecClassify == Init /\ [][NextClassify]_vars

\* the positions of a path where a segment begins
SegmentStarts(q) ==
    { i \in 1..Len(q) : q[i] # "/" /\ (i = 1 \/ q[i - 1] = "/") }

Depth(q) == Cardinality(SegmentStarts(q))

\* the first letter of the last segment
LastPrefix(q) == q[SetMax(SegmentStarts(q))]

Classified ==
    CASE Depth(last.path) = 1 /\ LastPrefix(last.path) = "v" -> "volume"
      [] Depth(last.path) = 2 /\ LastPrefix(last.path) = "a" -> "act"
      [] Depth(last.path) = 3 /\ LastPrefix(last.path) = "p" -> "plot_point"
      [] Depth(last.path) = 4 /\ LastPrefix(last.path) = "c" -> "chapter"
      [] OTHER -> "null"

\* C21: the type of a path is decided by the number of its segments and the
\* first letter of its last segment alone: one segment in v is a volume, two
\* ending in a an act, three ending in p a plot point, four ending in c a
\* chapter, and every other path is invalid, whatever the segments above.
C21_Classify ==
    last.op = "getNodeTypeFromPath" => last.result = Classified

\* a path of four segments whose upper segments carry the wrong letters is
\* classified as a chapter
C21_Witness ==
    /\ last.op = "getNodeTypeFromPath"
    /\ last.path = <<"/", "c", "1", "/", "c", "1", "/", "v", "1", "/", "c", "1">>
    /\ last.result = "chapter"

(***************************************************************************)
(* SpecTree: getChildren on outlines of several levels, with siblings,     *)
(* grandchildren and more than one subtree.                                *)
(***************************************************************************)
TreeMaxInner == 4      \* volumes, acts and plot points together
TreeMaxChapters == 2
TreeMaxOrd == 2

GetChildren(parentPath) ==
    /\ UNCHANGED <<conc, removed, graph>>
    /\ LET L == loadData
       IN  /\ data' = L.data
           /\ dataLoaded' = TRUE
           /\ file' = L.file
           /\ pre' = CallState(L.data)
           /\ last' = Call("getChildren", parentPath, NoData, "none",
                           getChildrenArray(L.data, parentPath), L.saved)

TreeAddData ==
    { [NoData EXCEPT !.type = t, !.hasTitle = TRUE, !.title = "t1"] :
        t \in NodeTypes \ {"chapter"} }
    \cup
    { [NoData EXCEPT !.type = "chapter", !.hasTitle = TRUE, !.title = "t1",
                     !.hasIndex = TRUE, !.index = i] : i \in Indices }

\* parents: the root, the stored paths, the empty string, and paths that
\* are no node's
TreeParents ==
    {Root, <<>>} \cup AllPaths(loadData.data) \cup OtherPaths \cup { <<"/", "v">> }

NextTree ==
    \/ \E parentPath \in TreeParents : Idle /\ GetChildren(parentPath)
    \/ \E parentPath \in {Root} \cup AllPaths(loadData.data), nd \in TreeAddData :
           /\ Idle
           /\ WithinOrd(loadData.data, parentPath, nd, TreeMaxOrd)
           /\ AddNode(parentPath, nd)
           /\ InnerCount(data') <= TreeMaxInner
           /\ ChapterCount(data') <= TreeMaxChapters
    \/ \E nodePath \in AllPaths(loadData.data) : Idle /\ DeleteNode(nodePath)
    \/ Return

SpecTree == Init /\ [][NextTree]_vars

\* q begins with the characters of prefix
HasPrefix(q, prefix) ==
    Len(q) >= Len(prefix) /\ \A i \in 1..Len(prefix) : q[i] = prefix[i]

\* the stored nodes directly under parentPath, with their paths
DirectChildren(d, parentPath) ==
    LET under == IF parentPath = Root THEN Root ELSE parentPath \o <<"/">>
    IN  { WithPath(d[dn][q], q) :
            <<dn, q>> \in { x \in DictNames \X AllPaths(d) :
                /\ x[2] \in DOMAIN d[x[1]]
                /\ HasPrefix(x[2], under)
                /\ Depth(x[2]) = Depth(parentPath) + 1 } }

\* C22: getChildren(parentPath) returns exactly the stored nodes whose path
\* starts with parentPath and a slash (with the slash alone for the root)
\* and lies one level below the parent, each of them once: no grandchild,
\* no node of another subtree, and not the parent.
C22_DirectChildren ==
    last.op = "getChildren" =>
        /\ DOMAIN last.result = DirectChildren(pre.data, last.path)
        /\ \A child \in DOMAIN last.result : last.result[child] = 1

\* getChildren of a volume that has an act with a plot point, beside
\* another volume: it returns the act alone
C22_Witness ==
    /\ last.op = "getChildren"
    /\ last.path = <<"/", "v", "1">>
    /\ <<"/", "v", "2">> \in DOMAIN pre.data.volumes
    /\ <<"/", "v", "1", "/", "a", "1", "/", "p", "1">> \in DOMAIN pre.data.plotPoints
    /\ { child.path : child \in DOMAIN last.result } = { <<"/", "v", "1", "/", "a", "1">> }

(***************************************************************************)
(* SpecReuse: volumes and acts are added and deleted, and the paths that   *)
(* deleteNode removed are remembered.                                      *)
(***************************************************************************)
ReuseMaxOrd == 4
ReuseMaxNodes == 3
MaxRemoved == 2      \* removed paths that are remembered at most

ReuseAddData ==
    { [NoData EXCEPT !.type = t, !.hasTitle = TRUE, !.title = "t1"] :
        t \in {"volume", "act"} }

DeleteNodeRecorded(nodePath) ==
    /\ DeleteNodeCall(nodePath)
    /\ removed' = removed \cup (AllPaths(pre'.data) \ AllPaths(data'))

NextReuse ==
    \/ \E parentPath \in {Root} \cup AllPaths(loadData.data), nd \in ReuseAddData :
           /\ Idle
           /\ WithinOrd(loadData.data, parentPath, nd, ReuseMaxOrd)
           /\ AddNode(parentPath, nd)
           /\ NodeCount(data') <= ReuseMaxNodes
    \/ \E nodePath \in AllPaths(loadData.data) :
           /\ Idle
           /\ DeleteNodeRecorded(nodePath)
           /\ Cardinality(removed') <= MaxRemoved
    \/ Return

SpecReuse == Init /\ [][NextReuse]_vars

\* C30: addNode of a volume, act or plot point hands out an ordinal above
\* every ordinal its same-type siblings have at that time; so the path of a
\* deleted node is handed out again only when no remaining sibling has its
\* ordinal or a higher one, and never while one has a higher ordinal.
C30_Reuse ==
    Added /\ last.nd.type # "chapter" =>
        /\ \A q \in Siblings(pre.data, last.path, last.nd.type) :
               Ordinal(q) < Ordinal(last.result)
        /\ \A q \in removed :
               (\E sib \in Siblings(pre.data, last.path, last.nd.type) :
                    /\ getParentPath(q) = last.path
                    /\ Ordinal(sib) > Ordinal(q)) => last.result # q

\* /v3 was deleted as the highest volume and handed out again; then /v2 was
\* deleted below /v3, and the next volume is /v4
C30_Witness ==
    /\ Added
    /\ removed = { <<"/", "v", "2">>, <<"/", "v", "3">> }
    /\ <<"/", "v", "3">> \in DOMAIN pre.data.volumes
    /\ last.result = <<"/", "v", "4">>

IdxMaxOrd == 1
IdxMaxChapters == 2
IdxMaxNodes == 5

IdxAddData ==
    { [NoData EXCEPT !.type = t, !.hasTitle = TRUE, !.title = "t1"] :
        t \in NodeTypes \ {"chapter"} }
    \cup
    { [NoData EXCEPT !.type = "chapter", !.hasTitle = TRUE, !.title = "t1",
                     !.hasIndex = TRUE, !.index = i] : i \in {1, 2} }

\* newData with an index: below, between and above the indices added
IdxPatches ==
    { [NoData EXCEPT !.hasIndex = TRUE, !.index = i] : i \in {0, 3} }

NextIndex ==
    \/ \E parentPath \in {Root} \cup AllPaths(loadData.data), nd \in IdxAddData :
           /\ Idle
           /\ WithinOrd(loadData.data, parentPath, nd, IdxMaxOrd)
           /\ NodeCount(loadData.data) < IdxMaxNodes
           /\ AddNode(parentPath, nd)
           /\ ChapterCount(data') <= IdxMaxChapters
    \/ \E nodePath \in AllPaths(loadData.data), nd \in IdxPatches :
           Idle /\ UpdateNode(nodePath, nd)
    \/ Return

SpecIndex == Init /\ [][NextIndex]_vars

\* chapter a stands before chapter b in the list
Before(list, a, b) ==
    \E i, j \in 1..Len(list) : i < j /\ list[i].path = a /\ list[j].path = b

\* C29: a successful updateNode of a chapter with an index in the patch
\* stores that index and moves nothing: the keys of the chapters are the
\* same, getNode at the path and getChildren of its plot point return the
\* chapter with the new index, and getAllChaptersSorted places it after the
\* chapters of a lower index and before those of a higher one.
C29_IndexOverwritten ==
    (Updated /\ last.nd.hasIndex /\ last.path \in DOMAIN pre.data.chapters) =>
        /\ DOMAIN data.chapters = DOMAIN pre.data.chapters
        /\ \A dn \in DictNames \ {"chapters"} : data[dn] = pre.data[dn]
        /\ getNode(data, last.path) # Null
        /\ getNode(data, last.path).path = last.path
        /\ getNode(data, last.path).index = last.nd.index
        /\ getNode(data, last.path) \in getChildren(data, getParentPath(last.path))
        /\ \A list \in getAllChaptersSorted(data) :
               \A q \in DOMAIN data.chapters \ {last.path} :
                   /\ data.chapters[q].index < last.nd.index
                          => Before(list, q, last.path)
                   /\ data.chapters[q].index > last.nd.index
                          => Before(list, last.path, q)

\* the chapter at c1 was given the index 3, and stands after the chapter
\* at c2 in the sorted list
C29_Witness ==
    /\ Updated
    /\ last.path = <<"/", "v", "1", "/", "a", "1", "/", "p", "1", "/", "c", "1">>
    /\ last.nd.index = 3
    /\ pre.data.chapters[last.path].index = 1
    /\ \E q \in DOMAIN data.chapters : data.chapters[q].index = 2
    /\ \A list \in getAllChaptersSorted(data) :
           Before(list, <<"/", "v", "1", "/", "a", "1", "/", "p", "1", "/", "c", "2">>,
                  last.path)

MigMaxVolumes == 2
MigMaxActs == 2        \* acts of a volume
MigMaxPlotPoints == 2  \* plot points of an act
MigMaxOrd == 3         \* the bound on sibling ordinals addNode generates
MigMaxNodes == 3       \* addNode is called on stores of fewer nodes

MigTitle(n) ==
    CASE n = 1 -> "t1" [] n = 2 -> "t2" [] n = 3 -> "t3" [] OTHER -> "t4"

\* the chapter lists of a plot point: chapter_index in declaration order
ChapterLists ==
    { <<>>, << Chap("t1", 7) >>,
      << Chap("t1", 7), Chap("t2", 7) >>,
      << Chap("t1", 5), Chap("t2", 3), Chap("t3", 9) >> }

\* a nested source of nv volumes with na acts each and np plot points in
\* each act; the plot points at odd positions hold the chapters
Outline(nv, na, np, chapters) ==
    [i \in 1..nv |->
        [volume |-> MigTitle(i), metadata |-> NoMeta, acts |->
            [j \in 1..na |->
                [act_name |-> MigTitle(j), metadata |-> NoMeta, plot_points |->
                    [k \in 1..np |->
                        [plot_point_name |-> MigTitle(k), metadata |-> NoMeta,
                         chapters |-> IF k % 2 = 1 THEN chapters ELSE <<>>]]]]]]

Outlines ==
    { Outline(nv, na, np, chapters) :
        nv \in 0..MigMaxVolumes, na \in 0..MigMaxActs,
        np \in 0..MigMaxPlotPoints, chapters \in ChapterLists }

MigAddData ==
    { [NoData EXCEPT !.type = t, !.hasTitle = TRUE, !.title = "t4"] :
        t \in NodeTypes \ {"chapter"} }
    \cup
    { [NoData EXCEPT !.type = "chapter", !.hasTitle = TRUE, !.title = "t4",
                     !.hasIndex = TRUE, !.index = 70] }

NextMig ==
    \/ \E outline \in Outlines :
           Idle /\ ConvertYAMLToJSONOf("nested", outline)
    \/ \E parentPath \in {Root} \cup AllPaths(loadData.data), nd \in MigAddData :
           /\ Idle
           /\ NodeCount(loadData.data) < MigMaxNodes
           /\ WithinOrd(loadData.data, parentPath, nd, MigMaxOrd)
           /\ AddNode(parentPath, nd)
    \/ Return

SpecMig == Init /\ [][NextMig]_vars

Migrated == last.op = "convertYAMLToJSON" /\ last.result = TRUE

\* the positions of the plot points of a nested source
PlotPointsOf(outline) ==
    { x \in (1..Len(outline)) \X (1..MigMaxActs + 1) \X (1..MigMaxPlotPoints + 1) :
        /\ x[2] <= Len(outline[x[1]].acts)
        /\ x[3] <= Len(outline[x[1]].acts[x[2]].plot_points) }

\* the path <plotPointPath>/c{index} for the plot point at position x
PathOfChapter(x, index) ==
    <<"/", "v">> \o NumToStr(x[1]) \o <<"/", "a">> \o NumToStr(x[2])
        \o <<"/", "p">> \o NumToStr(x[3]) \o <<"/", "c">> \o NumToStr(index)

\* the indices of a list of chapters, in the order of the list
IndicesOf(list) == [n \in 1..Len(list) |-> list[n].index]

\* C23: after a successful migration every chapter of the source is stored
\* under <plotPointPath>/c{chapter_index} with that index, whatever its
\* position in its list, with the title of the last chapter of the list
\* that declares the index, and no chapter is stored under another path;
\* chapters declared as 5, 3, 9 under the one plot point are c5, c3, c9, and
\* getAllChaptersSorted lists them as 3, 5, 9.
C23_ChapterPaths ==
    Migrated =>
        /\ \A x \in PlotPointsOf(last.outline) :
               LET chapters == last.outline[x[1]].acts[x[2]].plot_points[x[3]].chapters
               IN  \A n \in 1..Len(chapters) :
                       LET q == PathOfChapter(x, chapters[n].chapter_index)
                       IN  /\ q \in DOMAIN data.chapters
                           /\ data.chapters[q].index = chapters[n].chapter_index
                           /\ (\A m \in (n + 1)..Len(chapters) :
                                  chapters[m].chapter_index # chapters[n].chapter_index)
                                  => data.chapters[q].title = chapters[n].chapter_name
        /\ \A q \in DOMAIN data.chapters :
               \E x \in PlotPointsOf(last.outline) :
                   LET chapters == last.outline[x[1]].acts[x[2]].plot_points[x[3]].chapters
                   IN  \E n \in 1..Len(chapters) :
                           q = PathOfChapter(x, chapters[n].chapter_index)
        /\ (last.outline = Outline(1, 1, 1, << Chap("t1", 5), Chap("t2", 3),
                                              Chap("t3", 9) >>))
               => \A list \in getAllChaptersSorted(data) :
                      /\ IndicesOf(list) = <<3, 5, 9>>
                      /\ list[1].path = PathOfChapter(<<1, 1, 1>>, 3)
                      /\ list[2].path = PathOfChapter(<<1, 1, 1>>, 5)
                      /\ list[3].path = PathOfChapter(<<1, 1, 1>>, 9)

\* one volume, one act, one plot point with the chapters 5, 3, 9
C23_Witness ==
    /\ Migrated
    /\ last.outline = Outline(1, 1, 1, << Chap("t1", 5), Chap("t2", 3), Chap("t3", 9) >>)
    /\ DOMAIN data.chapters =
           { PathOfChapter(<<1, 1, 1>>, 5), PathOfChapter(<<1, 1, 1>>, 3),
             PathOfChapter(<<1, 1, 1>>, 9) }
    /\ data.chapters[PathOfChapter(<<1, 1, 1>>, 3)].title = "t2"

\* the ordinals of the type's nodes directly under parentPath
OrdinalsUnder(d, parentPath, type) ==
    { Ordinal(q) : q \in Siblings(d, parentPath, type) }

\* C24: after a successful migration the volume at position i of the source
\* is /v{i}, the act at position j of its list /v{i}/a{j} and the plot point
\* at position k of that act's list /v{i}/a{j}/p{k}, positions counted from
\* 1; so the ordinals of the volumes, of the acts of a volume and of the
\* plot points of an act are exactly 1..count.
C24_Positional ==
    Migrated =>
        LET outline == last.outline
            vol(i) == <<"/", "v">> \o NumToStr(i)
            act(i, j) == vol(i) \o <<"/", "a">> \o NumToStr(j)
            pp(i, j, k) == act(i, j) \o <<"/", "p">> \o NumToStr(k)
        IN  /\ DOMAIN data.volumes = { vol(i) : i \in 1..Len(outline) }
            /\ OrdinalsUnder(data, Root, "volume") = 1..Len(outline)
            /\ \A i \in 1..Len(outline) :
                   /\ data.volumes[vol(i)].title = outline[i].volume
                   /\ OrdinalsUnder(data, vol(i), "act") = 1..Len(outline[i].acts)
                   /\ \A j \in 1..Len(outline[i].acts) :
                          /\ act(i, j) \in DOMAIN data.acts
                          /\ data.acts[act(i, j)].title = outline[i].acts[j].act_name
                          /\ OrdinalsUnder(data, act(i, j), "plot_point")
                                 = 1..Len(outline[i].acts[j].plot_points)
                          /\ \A k \in 1..Len(outline[i].acts[j].plot_points) :
                                 /\ pp(i, j, k) \in DOMAIN data.plotPoints
                                 /\ data.plotPoints[pp(i, j, k)].title =
                                        outline[i].acts[j].plot_points[k].plot_point_name
            /\ \A q \in DOMAIN data.acts :
                   \E i \in 1..Len(outline) : getParentPath(q) = vol(i)
            /\ \A q \in DOMAIN data.plotPoints :
                   getParentPath(q) \in DOMAIN data.acts

\* two volumes of two acts of two plot points each: the second plot point
\* of the second act of the second volume is /v2/a2/p2, titled t2
C24_Witness ==
    /\ Migrated
    /\ Len(last.outline) = 2
    /\ Cardinality(DOMAIN data.acts) = 4
    /\ Cardinality(DOMAIN data.plotPoints) = 8
    /\ <<"/", "v", "2", "/", "a", "2", "/", "p", "2">> \in DOMAIN data.plotPoints
    /\ data.plotPoints[<<"/", "v", "2", "/", "a", "2", "/", "p", "2">>].title = "t2"
    /\ pre.data.volumes # <<>>

\* the paths of the nodes a nested source has entries for
SourcePaths(outline) ==
    LET vol(i) == <<"/", "v">> \o NumToStr(i)
        act(x) == vol(x[1]) \o <<"/", "a">> \o NumToStr(x[2])
        pp(x) == act(x) \o <<"/", "p">> \o NumToStr(x[3])
    IN  { vol(i) : i \in 1..Len(outline) }
        \cup { act(x) : x \in { y \in (1..Len(outline)) \X (1..MigMaxActs + 1) :
                                  y[2] <= Len(outline[y[1]].acts) } }
        \cup { pp(x) : x \in PlotPointsOf(outline) }
        \cup UNION { { PathOfChapter(x, outline[x[1]].acts[x[2]].plot_points[x[3]]
                                           .chapters[n].chapter_index) :
                        n \in 1..Len(outline[x[1]].acts[x[2]].plot_points[x[3]].chapters) } :
                      x \in PlotPointsOf(outline) }

\* C25: a successful migration leaves exactly the document of the source:
\* the stored paths are those of the source's entries, so no other node of
\* the document before survives; the document is the one the conversion of
\* the source alone gives, whatever the store held before, so a second run
\* against the same source gives the same document; and the file holds it.
C25_Replaced ==
    Migrated =>
        /\ AllPaths(data) = SourcePaths(last.outline)
        /\ data = Converted(last.outline)
        /\ \A q \in AllPaths(data) : NodeAt(data, q).title # "t4"
        /\ file = [state |-> "ok", doc |-> data]

\* the migration run a second time against a source of two volumes, on a
\* store that held its first result and a volume /v3 added since
C25_Witness ==
    /\ Migrated
    /\ Len(last.outline) = 2
    /\ <<"/", "v", "3">> \in DOMAIN pre.data.volumes
    /\ <<"/", "v", "3">> \notin DOMAIN data.volumes
    /\ \A q \in AllPaths(Converted(last.outline)) :
           /\ q \in AllPaths(pre.data)
           /\ NodeAt(pre.data, q) = NodeAt(Converted(last.outline), q)
    /\ data = Converted(last.outline)

(***************************************************************************)
(* The knowledge graph of src/index.ts (class KnowledgeGraphManager).  The *)
(* manager keeps nothing in memory: every operation reads the file, works  *)
(* on the graph it parsed and writes the file.  The file is the sequence   *)
(* of its lines, each the object that JSON.parse gives for it.             *)
(***************************************************************************)
EmptyGraph == [entities |-> <<>>, relations |-> <<>>]

\* list.includes(x), list.some(...)
includes(list, x) == \E i \in 1..Len(list) : list[i] = x

\* loadGraph on file f: the lines of type entity and of type relation;
\* a missing file gives the empty graph
loadGraphFrom(f) ==
    IF f.state = "missing" THEN EmptyGraph
    ELSE [entities |->
              LET items == SelectSeq(f.lines, LAMBDA item : item.type = "entity")
              IN  [i \in 1..Len(items) |->
                      IF "aliases" \in DOMAIN items[i] THEN items[i]
                      ELSE [aliases |-> <<>>] @@ items[i]],
          relations |->
              SelectSeq(f.lines, LAMBDA item : item.type = "relation")]

loadGraph == loadGraphFrom(graph)

\* saveGraph: { type: "entity", ...e } and { type: "relation", ...r }
saveGraph(g) ==
    [state |-> "ok",
     lines |-> [i \in 1..Len(g.entities) |->
                   g.entities[i] @@ [type |-> "entity"]]
               \o [i \in 1..Len(g.relations) |->
                      g.relations[i] @@ [type |-> "relation"]]]

createEntitiesOn(g, entities) ==
    LET kept == SelectSeq(entities, LAMBDA e :
                    ~\E i \in 1..Len(g.entities) : g.entities[i].name = e.name)
        newEntities == [i \in 1..Len(kept) |->
                           IF "aliases" \in DOMAIN kept[i] THEN kept[i]
                           ELSE [aliases |-> <<>>] @@ kept[i]]
    IN  [graph |-> [g EXCEPT !.entities = @ \o newEntities],
         result |-> newEntities]

createRelationsOn(g, relations) ==
    LET withProperties == [i \in 1..Len(relations) |->
                              IF "properties" \in DOMAIN relations[i]
                                  THEN relations[i]
                              ELSE [properties |-> <<>>] @@ relations[i]]
        newRelations == SelectSeq(withProperties, LAMBDA r :
                            ~\E i \in 1..Len(g.relations) :
                                /\ g.relations[i].from = r.from
                                /\ g.relations[i].to = r.to
                                /\ g.relations[i].relationType = r.relationType)
    IN  [graph |-> [g EXCEPT !.relations = @ \o newRelations],
         result |-> newRelations]

\* variant: an entry that names no entity is passed over
RECURSIVE addObservationsSkipping(_, _, _)
addObservationsSkipping(g, observations, results) ==
    IF observations = <<>>
        THEN [thrown |-> FALSE, graph |-> g, result |-> results]
    ELSE LET o == Head(observations)
             found == { i \in 1..Len(g.entities) :
                          g.entities[i].name = o.entityName }
         IN  IF found = {}
                 THEN addObservationsSkipping(g, Tail(observations), results)
             ELSE LET i == CHOOSE i \in found : \A j \in found : i <= j
                      entity == g.entities[i]
                      newObservations ==
                          SelectSeq(o.contents, LAMBDA content :
                              ~includes(entity.observations, content))
                  IN  addObservationsSkipping(
                          [g EXCEPT !.entities[i].observations =
                                        @ \o newObservations],
                          Tail(observations),
                          Append(results,
                                 [entityName |-> o.entityName,
                                  addedObservations |-> newObservations]))

\* observations.map(o => ...) over the entries not yet mapped, on the graph
\* the earlier entries have changed: find takes the first entity of the
\* name, an entry that names no entity throws
RECURSIVE addObservationsFrom(_, _, _)
addObservationsFrom(g, observations, results) ==
    IF observations = <<>>
        THEN [thrown |-> FALSE, graph |-> g, result |-> results]
    ELSE LET o == Head(observations)
             found == { i \in 1..Len(g.entities) :
                          g.entities[i].name = o.entityName }
         IN  IF found = {}
                 THEN [thrown |-> TRUE, graph |-> g, result |-> results]
             ELSE LET i == CHOOSE i \in found : \A j \in found : i <= j
                      entity == g.entities[i]
                      newObservations ==
                          SelectSeq(o.contents, LAMBDA content :
                              ~includes(entity.observations, content))
                  IN  addObservationsFrom(
                          [g EXCEPT !.entities[i].observations =
                                        @ \o newObservations],
                          Tail(observations),
                          Append(results,
                                 [entityName |-> o.entityName,
                                  addedObservations |-> newObservations]))

addObservationsOn(g, observations) == addObservationsFrom(g, observations, <<>>)

\* variant: a relation is removed only when it starts at a deleted entity
deleteEntitiesOnFrom(g, entityNames) ==
    [entities |-> SelectSeq(g.entities, LAMBDA e : ~includes(entityNames, e.name)),
     relations |-> SelectSeq(g.relations, LAMBDA r : ~includes(entityNames, r.from))]

deleteEntitiesOn(g, entityNames) ==
    [entities |-> SelectSeq(g.entities, LAMBDA e : ~includes(entityNames, e.name)),
     relations |-> SelectSeq(g.relations, LAMBDA r :
                       ~includes(entityNames, r.from) /\ ~includes(entityNames, r.to))]

\* a call on the knowledge graph: the outline store is not touched
GraphCall(op, input, result, g) ==
    /\ graph' = saveGraph(g)
    /\ pre' = CallState(data)
    /\ last' = [Call(op, Null, NoData, "none", result, TRUE) EXCEPT !.input = input]
    /\ UNCHANGED <<data, dataLoaded, file, conc, removed>>

CreateEntities(entities) ==
    LET r == createEntitiesOn(loadGraph, entities)
    IN  GraphCall("createEntities", entities, r.result, r.graph)

CreateRelations(relations) ==
    LET r == createRelationsOn(loadGraph, relations)
    IN  GraphCall("createRelations", relations, r.result, r.graph)

DeleteEntities(entityNames) ==
    GraphCall("deleteEntities", entityNames, Null,
              deleteEntitiesOn(loadGraph, entityNames))

\* addObservations: the exception of an entry that names no entity leaves
\* the call before saveGraph
AddObservations(observations) ==
    LET r == addObservationsOn(loadGraph, observations)
    IN  IF r.thrown
            THEN /\ graph' = graph
                 /\ pre' = CallState(data)
                 /\ last' = [Call("addObservations", Null, NoData, "none",
                                   <<>>, FALSE)
                                EXCEPT !.input = observations, !.thrown = TRUE]
                 /\ UNCHANGED <<data, dataLoaded, file, conc, removed>>
        ELSE GraphCall("addObservations", observations, r.result, r.graph)

(***************************************************************************)
(* SpecGraph: entities and relations are created and entities deleted.     *)
(***************************************************************************)
MaxBatch == 2          \* the longest list an operation is called with
MaxEntities == 3       \* entities the graph holds at most
MaxRelations == 2      \* relations the graph holds at most

EntityNames == {"a", "b"}

\* lists of at most MaxBatch elements of S
Lists(S) == UNION { [1..n -> S] : n \in 0..MaxBatch }

EntityInputs ==
    { [name |-> n, entityType |-> "t", observations |-> <<"o1">>] : n \in EntityNames }

RelationInputs ==
    { [from |-> f, to |-> t, relationType |-> "r"] :
        f \in EntityNames, t \in EntityNames }

\* names to delete: names of entities, and a name no entity has
DeleteNames == EntityNames \cup {"c"}

NextGraph ==
    \/ \E entities \in Lists(EntityInputs) :
           /\ Idle
           /\ CreateEntities(entities)
           /\ Len(loadGraphFrom(graph').entities) <= MaxEntities
    \/ \E relations \in { <<r>> : r \in RelationInputs } :
           /\ Idle
           /\ CreateRelations(relations)
           /\ Len(loadGraphFrom(graph').relations) <= MaxRelations
    \/ \E entityNames \in Lists(DeleteNames) : Idle /\ DeleteEntities(entityNames)
    \/ Return

SpecGraph == Init /\ [][NextGraph]_vars

\* the elements of a list
Range(list) == { list[i] : i \in 1..Len(list) }

\* the elements of a list at the positions S, in the order of the list
Others(list, S) ==
    [n \in 1..Cardinality(S) |->
        list[CHOOSE i \in S : Cardinality({ j \in S : j <= i }) = n]]

\* C27: after deleteEntities(names) the graph holds no entity with a name in
\* names and no relation that starts or ends at a name in names; the other
\* entities and relations are those of the graph before, unchanged and in
\* the same order.
C27_DeleteEntities ==
    last.op = "deleteEntities" =>
        LET before == loadGraphFrom(pre.graph)
            after == loadGraphFrom(graph)
            names == Range(last.input)
        IN  /\ \A e \in Range(after.entities) : e.name \notin names
            /\ \A r \in Range(after.relations) :
                   r.from \notin names /\ r.to \notin names
            /\ after.entities =
                   Others(before.entities,
                          { i \in 1..Len(before.entities) :
                              before.entities[i].name \notin names })
            /\ after.relations =
                   Others(before.relations,
                          { i \in 1..Len(before.relations) :
                              /\ before.relations[i].from \notin names
                              /\ before.relations[i].to \notin names })

\* a graph of the entities a and b with a relation from b to a and a
\* relation from b to b: deleteEntities(["a"]) leaves b and the relation
\* from b to b
C27_Witness ==
    /\ last.op = "deleteEntities"
    /\ last.input = <<"a">>
    /\ Len(loadGraphFrom(pre.graph).entities) = 2
    /\ Len(loadGraphFrom(pre.graph).relations) = 2
    /\ \E r \in Range(loadGraphFrom(pre.graph).relations) : r.from = "b" /\ r.to = "a"
    /\ Len(loadGraphFrom(graph).entities) = 1
    /\ loadGraphFrom(graph).entities[1].name = "b"
    /\ Len(loadGraphFrom(graph).relations) = 1
    /\ loadGraphFrom(graph).relations[1].to = "b"

(***************************************************************************)
(* The other operations called by concurrent callers, each as the steps    *)
(* between its awaits.                                                     *)
(***************************************************************************)
Finish(t, outcome) == [tasks EXCEPT ![t].pc = "done", ![t].outcome = outcome]

\* getNode: the lookup after loadData
Lookup(t) ==
    /\ tasks[t].pc = "lookup"
    /\ tasks' = Finish(t, IF getNode(data, tasks[t].parentPath) = Null
                              THEN "false" ELSE "value")
    /\ UNCHANGED <<data, dataLoaded, file, lastWriter, seq>>

\* getChildren: the loops over the four dictionaries
Scan(t) ==
    /\ tasks[t].pc = "scan"
    /\ tasks' = Finish(t, "value")
    /\ UNCHANGED <<data, dataLoaded, file, lastWriter, seq>>

\* updateNode: the node is looked up and changed in one run; saveData
\* follows
Update(t) ==
    LET r == updateNodeOn(data, tasks[t].parentPath, tasks[t].nd)
    IN  /\ tasks[t].pc = "update"
        /\ data' = r.data
        /\ tasks' = IF r.ok THEN [tasks EXCEPT ![t].pc = "stringify"]
                    ELSE Finish(t, "false")
        /\ UNCHANGED <<dataLoaded, file, lastWriter, seq>>

\* deleteNode: delete dictionary[nodePath], then the log
DeleteTarget(t) ==
    LET nodePath == tasks[t].parentPath
    IN  /\ tasks[t].pc = "deleteTarget"
        /\ IF DeleteRejected(data, nodePath)
               THEN /\ data' = data
                    /\ tasks' = Finish(t, "false")
           ELSE /\ data' = [data EXCEPT
                              ![DictName(getNodeTypeFromPath(nodePath))] =
                                  Without(@, {nodePath})]
                /\ tasks' = [tasks EXCEPT ![t].pc = "cascade",
                                          ![t].dictNo = 0, ![t].todo = {}]
        /\ UNCHANGED <<dataLoaded, file, lastWriter, seq>>

DictSeq == <<"volumes", "acts", "plotPoints", "chapters">>

\* the keys for ... in has still to visit after key
Visited(todo, key) == todo \ {key}

\* deleteNode: the loops run on to the next key under the prefix, delete it
\* and wait for the log; for ... in visits the keys its dictionary had when
\* the loop over it began and still has.  After the last dictionary
\* saveData follows.
CascadeStep(t) ==
    LET prefixToDelete == tasks[t].parentPath \o <<"/">>
        candidates(n) ==
            { q \in DOMAIN data[DictSeq[n]] :
                /\ startsWith(q, prefixToDelete)
                /\ n = tasks[t].dictNo => q \in tasks[t].todo }
        left == { n \in 1..4 : n >= tasks[t].dictNo /\ candidates(n) # {} }
    IN  /\ tasks[t].pc = "cascade"
        /\ IF left = {}
               THEN /\ data' = data
                    /\ tasks' = [tasks EXCEPT ![t].pc = "stringify",
                                              ![t].todo = {}]
           ELSE LET n == CHOOSE n \in left : \A m \in left : n <= m
                IN  \E q \in candidates(n) :
                        /\ data' = [data EXCEPT ![DictSeq[n]] = Without(@, {q})]
                        /\ tasks' = [tasks EXCEPT
                                         ![t].dictNo = n,
                                         ![t].todo = Visited(candidates(n), q)]
        /\ UNCHANGED <<dataLoaded, file, lastWriter, seq>>

\* getChapterWindowByPath: the type of the path is looked at first
WindowType(t) ==
    /\ tasks[t].pc = "windowType"
    /\ tasks' = IF getNodeTypeFromPath(tasks[t].parentPath) = "chapter"
                    THEN [tasks EXCEPT ![t].pc = "loadData"]
                ELSE Finish(t, "value")
    /\ UNCHANGED <<data, dataLoaded, file, lastWriter, seq>>

\* getChapterWindowByPath: the window is cut from the sorted list
Window(t) ==
    /\ tasks[t].pc = "window"
    /\ tasks' = Finish(t, "value")
    /\ UNCHANGED <<data, dataLoaded, file, lastWriter, seq>>

RECURSIVE Flatten(_)
Flatten(lists) ==
    IF lists = <<>> THEN <<>> ELSE Head(lists) \o Flatten(Tail(lists))

\* the assignments of the migration loops, in the order they are made
ConvSteps(outline) ==
    Flatten([i \in 1..Len(outline) |->
        << [dict |-> "volumes", path |-> VolPath(i),
            node |-> ConvVolumes(outline)[VolPath(i)]] >>
        \o Flatten([j \in 1..Len(outline[i].acts) |->
            << [dict |-> "acts", path |-> ActPath(i, j),
                node |-> ConvActs(outline)[ActPath(i, j)]] >>
            \o Flatten([k \in 1..Len(outline[i].acts[j].plot_points) |->
                << [dict |-> "plotPoints", path |-> PlotPointPath(i, j, k),
                    node |-> ConvPlotPoints(outline)[PlotPointPath(i, j, k)]] >>
                \o [n \in 1..Len(outline[i].acts[j].plot_points[k].chapters) |->
                       LET yamlChapter == outline[i].acts[j].plot_points[k].chapters[n]
                       IN  [dict |-> "chapters",
                            path |-> ChapterPath(i, j, k, yamlChapter.chapter_index),
                            node |-> [type |-> "chapter",
                                      title |-> yamlChapter.chapter_name,
                                      index |-> yamlChapter.chapter_index,
                                      metadata |-> yamlChapter.metadata]]]])])])

\* convertYAMLToJSON: fs.readFile of the source returns or throws, and the
\* content is parsed
ReadSource(t) ==
    /\ tasks[t].pc = "readSource"
    /\ \E src \in LiveSources :
           tasks' = IF src = "unreadable" THEN Finish(t, "false")
                    ELSE [tasks EXCEPT
                             ![t].pc = IF src = "noOutline" THEN "noOutline"
                                       ELSE "parsed",
                             ![t].steps = IF src = "noOutline" THEN <<>>
                                          ELSE ConvSteps(NestedSource(src))]
    /\ UNCHANGED <<data, dataLoaded, file, lastWriter, seq>>

\* convertYAMLToJSON: the document is reset and the loops begin; every
\* assignment of a node is followed by a log.  Without an outline list the
\* loop throws after the reset and the call returns false.
ConvertStep(t) ==
    LET d == IF tasks[t].pc = "convert" THEN data ELSE ResetData(data)
        steps == tasks[t].steps
    IN  /\ tasks[t].pc \in {"noOutline", "parsed", "convert"}
        /\ IF tasks[t].pc = "noOutline"
               THEN /\ data' = d
                    /\ tasks' = Finish(t, "false")
           ELSE IF steps = <<>>
               THEN /\ data' = d
                    /\ tasks' = [tasks EXCEPT ![t].pc = "stringify"]
           ELSE /\ data' = [d EXCEPT ![Head(steps).dict] =
                                (Head(steps).path :> Head(steps).node) @@ @]
                /\ tasks' = [tasks EXCEPT
                                 ![t].steps = Tail(steps),
                                 ![t].pc = IF Tail(steps) = <<>> THEN "stringify"
                                           ELSE "convert"]
        /\ UNCHANGED <<dataLoaded, file, lastWriter, seq>>

\* saveData: fs.mkdir or fs.writeFile fails; saveData rethrows, and the
\* operation ends with the exception (the migration catches it and
\* returns false)
WriteFails(t) ==
    /\ tasks[t].pc \in {"createWriteFile", "writeFile"}
    /\ tasks' = Finish(t, IF tasks[t].op = "convertYAMLToJSON" THEN "false"
                              ELSE "thrown")
    /\ UNCHANGED <<data, dataLoaded, file, lastWriter, seq>>

(***************************************************************************)
(* SpecLive: every operation called by two callers whose calls interleave, *)
(* on a store whose file is missing or holds an outline saved before.      *)
(* A step that is enabled is a continuation the event loop has to run or   *)
(* file I/O that is under way: it is taken eventually.                     *)
(***************************************************************************)
LiveMaxCalls == 2     \* calls of the two callers together; the first call
                      \*   of a caller can be issued while the other
                      \*   caller's call runs, a later one is issued when
                      \*   no call runs

\* the outline an earlier run has left in the file
LiveDoc == Converted(NestedSource("oneAct"))

InitLive ==
    /\ data = EmptyData
    /\ dataLoaded = FALSE
    /\ file \in { [state |-> "missing", doc |-> EmptyData], FileOf(LiveDoc) }
    /\ pre = NoCallState
    /\ last = NoCall
    /\ tasks = [t \in Tasks |-> NoTask]
    /\ lastWriter = 0
    /\ removed = {}
    /\ graph = NoGraphFile

\* the calls that change the outline: <<operation, path, nodeData>>
LiveWrites ==
    { <<"addNode", <<"/", "v", "1">>,
        [NoData EXCEPT !.type = "act", !.hasTitle = TRUE, !.title = "t1"]>>,
      <<"updateNode", <<"/", "v", "1", "/", "a", "1">>, TitlePatch>>,
      <<"deleteNode", <<"/", "v", "1">>, NoData>>,
      <<"convertYAMLToJSON", Null, NoData>> }

\* the calls that read it
LiveReads ==
    { <<"getNode", <<"/", "v", "1">>, NoData>>,
      <<"getChildren", <<"/", "v", "1">>, NoData>>,
      <<"getChapterWindowByPath",
        <<"/", "v", "1", "/", "a", "1", "/", "p", "1", "/", "c", "7">>, NoData>>,
      <<"getChapterWindowByPath", <<"/", "v", "1">>, NoData>> }

\* caller 1 calls every operation, caller 2 the two that run loops with
\* awaits in them
LiveCalls(t) ==
    IF t = 1 THEN LiveWrites \cup LiveReads
    ELSE { call \in LiveWrites : call[1] \in {"deleteNode", "convertYAMLToJSON"} }

CallsIssued == tasks[1].calls + tasks[2].calls

\* the steps of caller t
Step(t) ==
    \/ LoadCheck(t)
    \/ ReadFile(t)
    \/ InstallEmpty(t)
    \/ Stringify(t)
    \/ WriteFile(t)
    \/ WriteFails(t)
    \/ ParentCheck(t)
    \/ ScanChildren(t)
    \/ Insert(t)
    \/ Lookup(t)
    \/ Scan(t)
    \/ Update(t)
    \/ DeleteTarget(t)
    \/ CascadeStep(t)
    \/ WindowType(t)
    \/ Window(t)
    \/ ReadSource(t)
    \/ ConvertStep(t)

NextLive ==
    \/ \E t \in Tasks : \E call \in LiveCalls(t) :
           /\ CallsIssued < LiveMaxCalls
           /\ tasks[t].calls > 0 => \A u \in Tasks : ~Running(u)
           /\ IssueOp(t, call[1], call[2], call[3])
    \/ \E t \in Tasks : LoadCheck(t)
    \/ \E t \in Tasks : ReadFile(t)
    \/ \E t \in Tasks : InstallEmpty(t)
    \/ \E t \in Tasks : Stringify(t)
    \/ \E t \in Tasks : WriteFile(t)
    \/ \E t \in Tasks : WriteFails(t)
    \/ \E t \in Tasks : ParentCheck(t)
    \/ \E t \in Tasks : ScanChildren(t)
    \/ \E t \in Tasks : Insert(t)
    \/ \E t \in Tasks : Lookup(t)
    \/ \E t \in Tasks : Scan(t)
    \/ \E t \in Tasks : Update(t)
    \/ \E t \in Tasks : DeleteTarget(t)
    \/ \E t \in Tasks : CascadeStep(t)
    \/ \E t \in Tasks : WindowType(t)
    \/ \E t \in Tasks : Window(t)
    \/ \E t \in Tasks : ReadSource(t)
    \/ \E t \in Tasks : ConvertStep(t)

SpecLive ==
    InitLive /\ [][NextLive]_vars /\ \A t \in Tasks : WF_vars(Step(t))

\* C26: a call that has been issued ends, with its result or with a
\* failure, whatever the other caller does meanwhile
C26_Completes ==
    \A t \in Tasks : Running(t) ~> tasks[t].pc = "done"

\* deleteNode of /v1 has removed the volume and the act below it and has
\* returned true, while the migration of the other caller ran and returned
C26_Witness ==
    /\ tasks[1].pc = "done"
    /\ tasks[1].op = "deleteNode"
    /\ tasks[1].overlapped
    /\ tasks[1].outcome = "true"
    /\ tasks[2].pc = "done"
    /\ tasks[2].op = "convertYAMLToJSON"
    /\ tasks[2].outcome = "true"

(***************************************************************************)
(* SpecSort: getAllChaptersSorted on stores whose chapters share indices.  *)
(***************************************************************************)
SortMaxOrd == 1        \* the bound on sibling ordinals, under sorting
SortMaxNodes == 6      \* nodes the store holds at most, under sorting

SortAddData ==
    { [NoData EXCEPT !.type = t, !.hasTitle = TRUE, !.title = "t1"] :
        t \in NodeTypes \ {"chapter"} }
    \cup
    { [NoData EXCEPT !.type = "chapter", !.hasTitle = TRUE, !.title = "t1",
                     !.hasIndex = TRUE, !.index = i] : i \in {1, 2, 3} }

\* newData with the index 2, which a chapter of the store can have
SortPatches == { [NoData EXCEPT !.hasIndex = TRUE, !.index = 2] }

NextSort ==
    \/ \E parentPath \in {Root} \cup AllPaths(loadData.data), nd \in SortAddData :
           /\ Idle
           /\ WithinOrd(loadData.data, parentPath, nd, SortMaxOrd)
           /\ NodeCount(loadData.data) < SortMaxNodes
           /\ AddNode(parentPath, nd)
    \/ \E nodePath \in DOMAIN loadData.data.chapters, nd \in SortPatches :
           Idle /\ UpdateNode(nodePath, nd)
    \/ Idle /\ GetAllChaptersSorted
    \/ Return

SpecSort == Init /\ [][NextSort]_vars

Sorted == last.op = "getAllChaptersSorted"

\* C31: the list getAllChaptersSorted returns has one element for every
\* key of the chapter dictionary and no other, each the stored chapter
\* with its path, in non-decreasing order of index; the document in memory
\* is the loaded one and a file that was there is the same
C31_Sorted ==
    Sorted =>
        LET chapters == last.result
        IN  /\ Len(chapters) = Cardinality(DOMAIN pre.data.chapters)
            /\ \A q \in DOMAIN pre.data.chapters :
                   Cardinality({ i \in 1..Len(chapters) : chapters[i].path = q }) = 1
            /\ \A i \in 1..Len(chapters) :
                   /\ chapters[i].path \in DOMAIN pre.data.chapters
                   /\ chapters[i] = WithPath(pre.data.chapters[chapters[i].path],
                                             chapters[i].path)
            /\ \A i, j \in 1..Len(chapters) :
                   i < j => chapters[i].index <= chapters[j].index
            /\ data = pre.data
            /\ pre.file.state = "ok" => file = pre.file

\* three chapters, two of them with the index 2 after an update of the
\* chapter at c1, and the chapter at c3 last
C31_Witness ==
    /\ Sorted
    /\ Len(last.result) = 3
    /\ last.result[1].index = 2
    /\ last.result[2].index = 2
    /\ last.result[3].index = 3
    /\ last.result[2].path = <<"/", "v", "1", "/", "a", "1", "/", "p", "1", "/", "c", "1">>

BothAdded(t, u) ==
    /\ t # u
    /\ Succeeded(t)
    /\ Succeeded(u)
    /\ tasks[t].op = "addNode"
    /\ tasks[u].op = "addNode"
    /\ tasks[t].nd.type # "chapter"
    /\ tasks[u].nd.type # "chapter"
    /\ tasks[t].parentPath = tasks[u].parentPath

\* the document in memory holds, at the path the call of w returned, the
\* node it added
InMemory(w) ==
    LET dictionary == getDictionaryByType(data, tasks[w].nd.type)
    IN  /\ tasks[w].result \in DOMAIN dictionary
        /\ dictionary[tasks[w].result] = AddNewNode(tasks[w].nd)

ParentsPresent(d) ==
    \A q \in AllPaths(d) :
        getParentPath(q) = Root \/ getParentPath(q) \in AllPaths(d)

\* C33: with calls running at the same time, the file never holds a
\* document with a node whose parent path is absent, and neither does the
\* document in memory when every call has returned
C33_NoOrphans ==
    /\ file.state = "ok" => ParentsPresent(file.doc)
    /\ (\A t \in Tasks : ~Running(t)) => ParentsPresent(data)

\* C34: a successful updateNode whose newData has a title, an index or
\* both, and no type, no metadata object and no other field, leaves the
\* metadata of the node as it was
C34_MetadataKept ==
    ( /\ Updated
      /\ last.nd.type = "none"
      /\ ~last.nd.hasMetadata
      /\ last.nd.rest = NoData.rest
      /\ last.nd.hasTitle \/ last.nd.hasIndex ) =>
        NodeAt(data, last.path).metadata = NodeAt(pre.data, last.path).metadata

\* C35: when convertYAMLToJSON has returned false, the document in memory
\* and the file are what they were before the call
C35_FailedMigrationNoChange ==
    (last.op = "convertYAMLToJSON" /\ last.result = FALSE) =>
        /\ data = pre.data
        /\ file = pre.file

\* the positions of the acts and of the chapters of a nested source
ActsOf(outline) ==
    { y \in (1..Len(outline)) \X (1..MigMaxActs + 1) :
        y[2] <= Len(outline[y[1]].acts) }

ChaptersOf(outline) ==
    { y \in PlotPointsOf(outline) \X (1..MaxList) :
        y[2] <= Len(outline[y[1][1]].acts[y[1][2]].plot_points[y[1][3]].chapters) }

\* C36: after a successful migration the document has as many volumes,
\* acts, plot points and chapters as the nested source has
C36_OneNodePerEntry ==
    Migrated =>
        /\ Cardinality(DOMAIN data.volumes) = Len(last.outline)
        /\ Cardinality(DOMAIN data.acts) = Cardinality(ActsOf(last.outline))
        /\ Cardinality(DOMAIN data.plotPoints)
               = Cardinality(PlotPointsOf(last.outline))
        /\ Cardinality(DOMAIN data.chapters)
               = Cardinality(ChaptersOf(last.outline))

\* C37: a file that could not be read or parsed when it was loaded is not
\* written over with a document built on the empty structure installed in
\* its place: an operation that loads the document and found such a file
\* leaves it as it was
C37_UnreadableFileKept ==
    (last.op \notin {"none", "convertYAMLToJSON"} /\ pre.file.state = "corrupt")
        => file = pre.file

\* C38: no two entities of the stored graph have the same name, and
\* createEntities returns the entities it appended to the graph (which the
\* file holds with their type)
C38_UniqueNames ==
    LET after == loadGraphFrom(graph)
    IN  /\ \A i, j \in 1..Len(after.entities) :
               i # j => after.entities[i].name # after.entities[j].name
        /\ last.op = "createEntities" =>
               after.entities =
                   loadGraphFrom(pre.graph).entities
                       \o [i \in 1..Len(last.result) |->
                              last.result[i] @@ [type |-> "entity"]]

(***************************************************************************)
(* SpecObs: observations are added to the entities of the graph.           *)
(***************************************************************************)
ObsMaxBatch == 2       \* the longest list addObservations is called with

\* entries for the entities a and b and for the name c, which no entity has
ObsEntries ==
    { [entityName |-> n, contents |-> c] :
        n \in EntityNames \cup {"c"},
        c \in { <<"o1">>, <<"o1", "o2">>, <<"o2", "o2">> } }

NextObs ==
    \/ \E e \in EntityInputs : Idle /\ CreateEntities(<<e>>)
    \/ \E observations \in UNION { [1..n -> ObsEntries] : n \in 0..ObsMaxBatch } :
           Idle /\ AddObservations(observations)
    \/ \E n \in EntityNames : Idle /\ DeleteEntities(<<n>>)
    \/ Return

SpecObs == Init /\ [][NextObs]_vars

\* list is the beginning of longer
IsPrefix(list, longer) ==
    Len(list) <= Len(longer) /\ SubSeq(longer, 1, Len(list)) = list

\* C39: addObservations with an entry that names no entity of the graph
\* ends with the exception and leaves the file as it was, whatever the
\* entries before it; without such an entry it returns one result for
\* every entry, the entities and relations are the same but for the
\* observations, and every entity keeps its observations and gains, after
\* them, only contents of its entries that it did not have
C39_AllOrNothing ==
    last.op = "addObservations" =>
        LET before == loadGraphFrom(pre.graph)
            after == loadGraphFrom(graph)
            names == { e.name : e \in Range(before.entities) }
            missing == \E o \in Range(last.input) : o.entityName \notin names
        IN  /\ last.thrown <=> missing
            /\ missing => graph = pre.graph
            /\ ~missing =>
                   /\ Len(last.result) = Len(last.input)
                   /\ \A n \in 1..Len(last.input) :
                          /\ last.result[n].entityName = last.input[n].entityName
                          /\ Range(last.result[n].addedObservations)
                                 \subseteq Range(last.input[n].contents)
                   /\ after.relations = before.relations
                   /\ Len(after.entities) = Len(before.entities)
                   /\ \A i \in 1..Len(before.entities) :
                          LET old == before.entities[i].observations
                              new == after.entities[i].observations
                              asked == UNION { Range(o.contents) :
                                          o \in { x \in Range(last.input) :
                                              x.entityName = before.entities[i].name } }
                          IN  /\ after.entities[i] =
                                     [before.entities[i] EXCEPT !.observations = new]
                              /\ IsPrefix(old, new)
                              /\ \A k \in (Len(old) + 1)..Len(new) :
                                     new[k] \in asked /\ new[k] \notin Range(old)
                              /\ asked \subseteq Range(new)

\* the entity a exists and c does not: the entry for a, placed first, would
\* have added o2, and the file still holds a with o1 alone
C39_Witness ==
    /\ last.op = "addObservations"
    /\ last.thrown
    /\ last.input = << [entityName |-> "a", contents |-> <<"o1", "o2">>],
                       [entityName |-> "c", contents |-> <<"o1">>] >>
    /\ graph = pre.graph
    /\ Len(loadGraphFrom(graph).entities) = 1
    /\ loadGraphFrom(graph).entities[1].name = "a"
    /\ loadGraphFrom(graph).entities[1].observations = <<"o1">>
====
